---------------------------- MODULE Spec2Model ----------------------------
(***************************************************************************)
(* Page layout and pagination of domdiv/draw.py: PageLayout (calculate,    *)
(* paginate, setItem, interleaveList, interleave), CardPlot, split,        *)
(* DividerDrawer.getPageLayout, convert2pages, setupCardPlots and the      *)
(* pagination part of drawDividers.                                        *)
(*                                                                         *)
(* Lengths are integers.  Every length drawn in Init is even, so that the  *)
(* code's "/ 2" (margins) is exact and is written Half(x).                 *)
(***************************************************************************)
EXTENDS Integers, Sequences, FiniteSets, TLC

VARIABLES
    options,     \* the option record handed to DividerDrawer.draw
    cards,       \* the cards handed to drawDividers (kept for reference)
    items,       \* drawDividers: the list of CardPlot items not yet paged
    layout,      \* drawDividers: the base layout
    pages,       \* drawDividers: list of (hMargin, vMargin, page)
    pc,          \* position in drawDividers
    splitI,      \* split: the local i
    thisLayout,  \* greedy loop: layout of the page being filled
    itemsPage,   \* greedy loop: items of the page being filled
    maxHeight,   \* greedy loop: tallest item height on the page
    pageOffset,  \* greedy loop: number of the page being filled
    hMargin,     \* options.horizontalMargin
    vMargin,     \* options.verticalMargin
    canvas,      \* self.canvas: the calls made on the reportlab canvas, counted
    drawn,       \* the calls of drawDivider made so far, with their margins
    pageNum,     \* drawDividers: the pageNum of "for pageNum, pageInfo"
    itemNum,     \* drawDividers: how many items of the page have been drawn
    askedSide,   \* the side handed to translateCropmarkEnable
    cropmark,    \* the value translateCropmarkEnable returned
    rotateDelta, \* the delta handed to CardPlot.rotate
    plotter,     \* a Plotter: its pen and what it has drawn on its canvas
    frame        \* what CardPlot.translate has handed to the canvas

renderVars == <<canvas, drawn, pageNum, itemNum>>

cropVars == <<askedSide, cropmark>>

callVars == <<rotateDelta, plotter, frame>>

vars == <<options, cards, items, layout, pages, pc, splitI, thisLayout,
          itemsPage, maxHeight, pageOffset, hMargin, vMargin,
          renderVars, cropVars, callVars>>

-----------------------------------------------------------------------------
(* Bounds of the model *)

MaxCards == 4        \* at most this many cards are handed to drawDividers
MaxPaperUnits == 7   \* paper width and height are at most 2*MaxPaperUnits
MaxPages == MaxCards + 1   \* the page list is not grown beyond this length
MaxBatch == 9        \* PageSpec: at most this many items are handed to paginate
MaxPageNumber == 2   \* PageSpec: the page numbers handed to paginate
MaxScenarioBatch == 20   \* ScenarioSpec: at most this many items are handed to paginate
MaxCalls == 3        \* PlotSpec: at most this many calls are made on a Plotter

-----------------------------------------------------------------------------
(* Arithmetic helpers *)

Half(x) == x \div 2

Min(a, b) == IF a < b THEN a ELSE b

Max(a, b) == IF a > b THEN a ELSE b

-----------------------------------------------------------------------------
(* PageLayout: class attributes as set by getPageLayout *)

PageLayoutAttrs(o) ==
    [ pageWidth       |-> o.paperwidth,
      pageHeight      |-> o.paperheight,
      tabHeight       |-> o.dividerHeight - o.dividerBaseHeight,
      tabWidth        |-> o.labelWidth,
      dividerWidth    |-> o.dividerWidth,
      doExtra         |-> o.optimize_extra,
      doInterleave    |-> o.optimize_interleave,
      isWrapper       |-> o.wrapper,
      minMarginH      |-> o.minHorizontalMargin,
      minMarginV      |-> o.minVerticalMargin,
      tabIsHorizontal |-> (o.orientation = "horizontal"),
      extraSpacing    |-> IF o.cropmarks
                          THEN 2 * (o.cropmarkLength + o.cropmarkSpacing)
                          ELSE 0 ]

\* "going up the columns" or "going across the rows"
doUpDownOf(cls, self) ==
    \/ (self.layoutIsHorizontal /\ cls.tabIsHorizontal)
    \/ (~self.layoutIsHorizontal /\ ~cls.tabIsHorizontal)
    \/ (~self.layoutIsHorizontal /\ cls.isWrapper)

\* the field part of calculate: rows, columns, field size
calculateField(cls, self, isInterleaved, usableWidth, usableHeight) ==
    IF ~isInterleaved
    THEN LET columns == usableWidth \div self.width
             rows    == usableHeight \div self.height
         IN [ columns |-> columns, rows |-> rows,
              field_width  |-> columns * self.width,
              field_height |-> rows * self.height ]
    ELSE IF doUpDownOf(cls, self)
    THEN LET doubleHeight == 2 * self.height - cls.tabHeight
             doubles == usableHeight \div doubleHeight
             singles == (usableHeight - (doubles * doubleHeight)) \div self.height
             columns == usableWidth \div self.width
         IN [ columns |-> columns, rows |-> doubles * 2 + singles,
              field_width  |-> columns * self.width,
              field_height |-> (doubles * doubleHeight) + (singles * self.height) ]
    ELSE LET doubleHeight == 2 * self.height - cls.tabHeight
             doubles == usableWidth \div doubleHeight
             singles == (usableWidth - (doubles * doubleHeight)) \div self.height
             rows    == usableHeight \div self.width
         IN [ columns |-> doubles * 2 + singles, rows |-> rows,
              field_width  |-> (doubles * doubleHeight) + (singles * self.height),
              field_height |-> rows * self.width ]

\* the "extra" part of calculate: extra, leftover and the margins
calculateExtra(cls, self, isInterleaved, usableWidth, usableHeight, f) ==
    LET marginHeight0 == Half(usableHeight - f.field_height)
        marginWidth0  == Half(usableWidth - f.field_width)
        none == [ extra |-> 0, leftover |-> self.leftover,
                  marginWidth |-> marginWidth0, marginHeight |-> marginHeight0 ]
    IN
    IF ~cls.doExtra THEN none
    ELSE IF self.layoutIsHorizontal
    THEN LET leftover == usableWidth - f.field_width - cls.extraSpacing IN
         IF leftover >= self.height
         THEN LET doubleWidth == (2 * self.width) - cls.tabHeight
                  doubles == usableHeight \div doubleWidth
                  singles == (usableHeight - (doubles * doubleWidth)) \div self.width
                  inter   == isInterleaved /\ (~cls.tabIsHorizontal \/ cls.isWrapper)
                  extra   == IF inter THEN 2 * doubles + singles
                                      ELSE usableHeight \div self.width
                  extraLength == IF inter
                                 THEN (doubles * doubleWidth) + (singles * self.width)
                                 ELSE extra * self.width
                  extraMargin == Half(usableHeight - extraLength)
                  leftover2 == usableWidth - f.field_width - self.height - cls.extraSpacing
              IN IF extra > 0
                 THEN [ extra |-> extra, leftover |-> leftover2,
                        marginWidth  |-> Half(leftover2),
                        marginHeight |-> Min(marginHeight0, extraMargin) ]
                 ELSE [ none EXCEPT !.extra = extra, !.leftover = leftover ]
         ELSE [ none EXCEPT !.leftover = leftover ]
    ELSE LET leftover == usableHeight - f.field_height - cls.extraSpacing IN
         IF leftover >= self.width
         THEN LET doubleHeight == (2 * self.height) - cls.tabHeight
                  doubles == usableWidth \div doubleHeight
                  singles == (usableWidth - (doubles * doubleHeight)) \div self.height
                  inter   == isInterleaved /\ (~cls.tabIsHorizontal \/ cls.isWrapper)
                  extra   == IF inter THEN 2 * doubles + singles
                                      ELSE usableWidth \div self.height
                  extraLength == IF inter
                                 THEN (doubles * doubleHeight) + (singles * self.height)
                                 ELSE extra * self.height
                  extraMargin == Half(usableWidth - extraLength)
                  leftover2 == usableHeight - f.field_height - self.width - cls.extraSpacing
              IN IF extra > 0
                 THEN [ extra |-> extra, leftover |-> leftover2,
                        marginWidth  |-> Min(marginWidth0, extraMargin),
                        marginHeight |-> Half(leftover2) ]
                 ELSE [ none EXCEPT !.extra = extra, !.leftover = leftover ]
         ELSE [ none EXCEPT !.leftover = leftover ]

\* usableLength with the margin taken out on one side only
usableLengthOneMargin(pageLength, minMargin) == pageLength - minMargin

\* "Take out minimum margins"
usableLength(pageLength, minMargin) == pageLength - (2 * minMargin)

\* PageLayout.calculate
calculate(cls, self, interleaved) ==
    LET tryInterleave == IF (2 * cls.tabWidth > cls.dividerWidth) \/ ~cls.doInterleave
                         THEN FALSE ELSE self.tryInterleave
        isInterleaved == interleaved /\ tryInterleave
        usableWidth   == usableLength(cls.pageWidth, cls.minMarginH)
        usableHeight  == usableLength(cls.pageHeight, cls.minMarginV)
        \* f: the field, e: the extras and the margins
        result(f, e) ==
            [ self EXCEPT
                !.tryInterleave = tryInterleave,
                !.isInterleaved = isInterleaved,
                !.columns = f.columns,
                !.rows = f.rows,
                !.extra = e.extra,
                !.leftover = e.leftover,
                !.marginWidth = e.marginWidth,
                !.marginHeight = e.marginHeight,
                !.number = (f.rows * f.columns) + e.extra,
                !.horizontalMargin = e.marginWidth + cls.minMarginH,
                !.verticalMargin = e.marginHeight + cls.minMarginV ]
        withField(f) ==
            result(f, calculateExtra(cls, self, isInterleaved, usableWidth, usableHeight, f))
    IN withField(calculateField(cls, self, isInterleaved, usableWidth, usableHeight))

\* the comparison with a tie going to the interleaved calculation
baseIsBetterStrictly(non_interleave_number, number) == non_interleave_number > number

\* "It was better with the base number, redo it."
baseIsBetter(non_interleave_number, number) == non_interleave_number >= number

\* PageLayout.__init__
PageLayout(cls, width, height, rotation, extraRotation, layoutIsHorizontal, tryInterleave) ==
    LET self0 == [ width |-> width, height |-> height, rotation |-> rotation,
                   extraRotation |-> extraRotation,
                   layoutIsHorizontal |-> layoutIsHorizontal,
                   rows |-> 0, columns |-> 0, extra |-> 0,
                   marginWidth |-> 0, marginHeight |-> 0,
                   horizontalMargin |-> cls.minMarginH,
                   verticalMargin |-> cls.minMarginV,
                   leftover |-> 0, number |-> 0,
                   tryInterleave |-> tryInterleave, isInterleaved |-> FALSE ]
        \* nonInterleaveNumber = base.number; inter: after calculate(interleave=True)
        better(base, inter) ==
            IF baseIsBetter(base.number, inter.number)
            THEN calculate(cls, inter, FALSE)
            ELSE inter
        tried(base) ==
            IF base.tryInterleave
            THEN better(base, calculate(cls, base, TRUE))
            ELSE base
    IN tried(calculate(cls, self0, FALSE))


-----------------------------------------------------------------------------
(* DividerDrawer.getPageLayout *)

\* pickLayout with the comparison of the numbers turned round
pickLayoutFewer(o, layoutIsHorizontal, horizontal, vertical) ==
    IF layoutIsHorizontal
    THEN IF o.optimize_rotate /\ (vertical.number = horizontal.number)
         THEN IF vertical.extra < horizontal.extra THEN vertical ELSE horizontal
         ELSE IF o.optimize_rotate /\ (vertical.number < horizontal.number)
         THEN vertical
         ELSE horizontal
    ELSE IF o.optimize_rotate /\ (horizontal.number < vertical.number)
         THEN horizontal
         ELSE vertical

\* pickLayout with a tie of the extras going to the rotated candidate
pickLayoutTieRotated(o, layoutIsHorizontal, horizontal, vertical) ==
    IF layoutIsHorizontal
    THEN IF o.optimize_rotate /\ (vertical.number = horizontal.number)
         THEN IF vertical.extra <= horizontal.extra THEN vertical ELSE horizontal
         ELSE IF o.optimize_rotate /\ (vertical.number > horizontal.number)
         THEN vertical
         ELSE horizontal
    ELSE IF o.optimize_rotate /\ (horizontal.number >= vertical.number)
         THEN horizontal
         ELSE vertical

\* the choice between the two candidate layouts
pickLayout(o, layoutIsHorizontal, horizontal, vertical) ==
    IF layoutIsHorizontal
    THEN IF o.optimize_rotate /\ (vertical.number = horizontal.number)
         THEN IF vertical.extra < horizontal.extra THEN vertical ELSE horizontal
         ELSE IF o.optimize_rotate /\ (vertical.number > horizontal.number)
         THEN vertical
         ELSE horizontal
    ELSE \* the first "if" assigns layout, the second if/else assigns it again
         LET layout1 == IF o.optimize_rotate /\ (horizontal.number = vertical.number)
                        THEN IF horizontal.extra < vertical.extra
                             THEN horizontal ELSE vertical
                        ELSE vertical
             layout2 == IF o.optimize_rotate /\ (horizontal.number > vertical.number)
                        THEN horizontal
                        ELSE vertical
         IN layout2

\* maxHeightArg < 0 stands for "not given"
maxHeightOfArg(o, maxHeightArg) ==
    IF maxHeightArg < 0 THEN o.dividerHeightReserved ELSE maxHeightArg

isNaturalHorizontal(o, maxHeightArg) ==
    o.dividerWidthReserved >= maxHeightOfArg(o, maxHeightArg)

\* the candidate "horizontal" of getPageLayout
horizontalLayout(o, maxHeightArg, tryInterleave) ==
    LET maxH == maxHeightOfArg(o, maxHeightArg)
        maxW == o.dividerWidthReserved
    IN IF isNaturalHorizontal(o, maxHeightArg)
       THEN PageLayout(PageLayoutAttrs(o), maxW, maxH, 0, 90, TRUE, tryInterleave)
       ELSE PageLayout(PageLayoutAttrs(o), maxH, maxW, 90, 0, TRUE, tryInterleave)

\* the candidate "vertical" of getPageLayout
verticalLayout(o, maxHeightArg, tryInterleave) ==
    LET maxH == maxHeightOfArg(o, maxHeightArg)
        maxW == o.dividerWidthReserved
    IN IF isNaturalHorizontal(o, maxHeightArg)
       THEN PageLayout(PageLayoutAttrs(o), maxH, maxW, 90, 0, FALSE, tryInterleave)
       ELSE PageLayout(PageLayoutAttrs(o), maxW, maxH, 0, 90, FALSE, tryInterleave)

getPageLayout(o, maxHeightArg, tryInterleave) ==
    pickLayout(o, isNaturalHorizontal(o, maxHeightArg),
               horizontalLayout(o, maxHeightArg, tryInterleave),
               verticalLayout(o, maxHeightArg, tryInterleave))

-----------------------------------------------------------------------------
(* CardPlot *)

\* CardPlot.__init__ ; the fields CropOnTop .. CropOnRight are the attributes
\* that setItem creates for an item of the extra area (FALSE: not created)
CardPlot(card, height, width, stackHeight, rightSide, textTypeFront, textTypeBack, isTabCentred) ==
    [ card |-> card, x |-> 0, y |-> 0, rotation |-> 0,
      width |-> width, height |-> height, stackHeight |-> stackHeight,
      textTypeFront |-> textTypeFront, textTypeBack |-> textTypeBack,
      cropOnTop |-> FALSE, cropOnBottom |-> FALSE,
      cropOnLeft |-> FALSE, cropOnRight |-> FALSE,
      CropOnTop |-> FALSE, CropOnBottom |-> FALSE,
      CropOnLeft |-> FALSE, CropOnRight |-> FALSE,
      page |-> 0, rightSide |-> rightSide, isTabCentred |-> isTabCentred ]

setXY(item, x, y) == [ item EXCEPT !.x = x, !.y = y ]

setXYR(item, x, y, rotation) == [ item EXCEPT !.x = x, !.y = y, !.rotation = rotation ]

\* rotate without the "% 360"
rotateUnwrapped(item, delta) == [ item EXCEPT !.rotation = item.rotation + delta ]

rotate(item, delta) == [ item EXCEPT !.rotation = (item.rotation + delta) % 360 ]

\* flipFront2Back that moves the text and leaves the tab where it is
flipFront2BackTextOnly(item) ==
    [ item EXCEPT !.textTypeFront = item.textTypeBack,
                  !.textTypeBack = item.textTypeFront ]

flipFront2Back(item) ==
    [ item EXCEPT !.rightSide = ~item.rightSide,
                  !.textTypeFront = item.textTypeBack,
                  !.textTypeBack = item.textTypeFront ]

\* the directional constants of CardPlot
LEFT == 1

RIGHT == 2

TOP == 3

BOTTOM == 4

\* translateCropmarkEnable, "First the rotation": the page flag read for each
\* printed side.  A rotation other than 0, 90, 180, 270 leaves the four
\* locals unbound (UnboundLocalError): no arm of the CASE.
sidesOf(item) ==
    CASE item.rotation = 0 ->
           [ sideTop |-> item.cropOnTop, sideBottom |-> item.cropOnBottom,
             sideRight |-> item.cropOnRight, sideLeft |-> item.cropOnLeft ]
      [] item.rotation = 90 ->
           [ sideTop |-> item.cropOnRight, sideBottom |-> item.cropOnLeft,
             sideRight |-> item.cropOnBottom, sideLeft |-> item.cropOnTop ]
      [] item.rotation = 180 ->
           [ sideTop |-> item.cropOnBottom, sideBottom |-> item.cropOnTop,
             sideRight |-> item.cropOnLeft, sideLeft |-> item.cropOnRight ]
      [] item.rotation = 270 ->
           [ sideTop |-> item.cropOnLeft, sideBottom |-> item.cropOnRight,
             sideRight |-> item.cropOnTop, sideLeft |-> item.cropOnBottom ]

\* translateCropmarkEnable with left and right exchanged for rightSide the
\* wrong way round (exchanged when the tab is not flipped)
translateCropmarkEnableNoSwap(item, side) ==
    LET pick(s) ==
            CASE side = TOP -> s.sideTop
              [] side = BOTTOM -> s.sideBottom
              [] side = RIGHT -> IF item.rightSide THEN s.sideRight ELSE s.sideLeft
              [] side = LEFT -> IF item.rightSide THEN s.sideLeft ELSE s.sideRight
              [] OTHER -> FALSE
    IN pick(sidesOf(item))

\* CardPlot.translateCropmarkEnable
translateCropmarkEnable(item, side) ==
    LET \* "Now take care of the case where the tab has been flipped"
        pick(s) ==
            CASE side = TOP -> s.sideTop
              [] side = BOTTOM -> s.sideBottom
              [] side = RIGHT -> IF item.rightSide THEN s.sideLeft ELSE s.sideRight
              [] side = LEFT -> IF item.rightSide THEN s.sideRight ELSE s.sideLeft
              [] OTHER -> FALSE
    IN pick(sidesOf(item))

-----------------------------------------------------------------------------
(* PageLayout.setItem, interleave, interleaveList, paginate *)

\* gridX counting the columns from the right
gridXFromRight(self, itemOnPage) == (self.columns - 1) - (itemOnPage % self.columns)

\* gridY counting the rows from the bottom
gridYFromBottom(self, itemOnPage) == itemOnPage \div self.columns

\* gridY with every item one row further down
gridYOneRowDown(self, itemOnPage) == (self.rows - 2) - (itemOnPage \div self.columns)

\* gridCrop with top and bottom exchanged
gridCropUpsideDown(self, x, y) ==
    [ top |-> (y = 0), bottom |-> (y = self.rows - 1),
      left |-> (x = 0), right |-> (x = self.columns - 1) ]

\* setItem, main field: the column x and the row y of the item's cell
gridX(self, itemOnPage) == itemOnPage % self.columns

gridY(self, itemOnPage) == (self.rows - 1) - (itemOnPage \div self.columns)

\* setItem, main field: the crop flags of the item in column x, row y
gridCrop(self, x, y) ==
    [ top |-> (y = self.rows - 1), bottom |-> (y = 0),
      left |-> (x = 0), right |-> (x = self.columns - 1) ]

setItem(cls, self, item, itemOnPage, pageNumber) ==
    LET dx == 0
        dy == 0
    IN
    IF itemOnPage < (self.columns * self.rows)
    THEN LET x == gridX(self, itemOnPage)
             y == gridY(self, itemOnPage)
             crop == gridCrop(self, x, y)
         IN [ item EXCEPT !.page = pageNumber,
                          !.rotation = self.rotation,
                          !.x = x * self.width + dx,
                          !.y = y * self.height + dy,
                          !.cropOnTop = crop.top,
                          !.cropOnBottom = crop.bottom,
                          !.cropOnLeft = crop.left,
                          !.cropOnRight = crop.right ]
    ELSE LET e == itemOnPage - (self.columns * self.rows)
         IN IF self.layoutIsHorizontal
            THEN [ item EXCEPT !.page = pageNumber,
                          !.rotation = self.extraRotation,
                          !.x = (self.columns * self.width) + cls.extraSpacing + dx,
                          !.y = e * self.width + dy,
                          !.cropOnLeft = TRUE,
                          !.cropOnRight = TRUE,
                          !.CropOnBottom = (e = 0),
                          !.CropOnTop = (e = self.extra - 1) ]
            ELSE [ item EXCEPT !.page = pageNumber,
                          !.rotation = self.extraRotation,
                          !.x = e * self.height + dx,
                          !.y = (self.rows * self.height) + cls.extraSpacing + dy,
                          !.cropOnTop = TRUE,
                          !.cropOnBottom = TRUE,
                          !.CropOnLeft = (e = 0),
                          !.CropOnRight = (e = self.extra - 1) ]

\* the second item flipped whatever the tab sides are
tabSidesDifferAlways(item1, item2) == TRUE

\* "if item1.rightSide != item2.rightSide:"
tabSidesDiffer(item1, item2) == item1.rightSide # item2.rightSide

\* interleave.  result: the two items and the returned height of the pair
interleave(cls, item1in, item2in, x, y) ==
    LET adjustmentOf(item1) ==
            IF cls.isWrapper /\ (item1.rightSide = item2in.rightSide)
            THEN cls.tabHeight + Min(item1.stackHeight, item2in.stackHeight)
            ELSE cls.tabHeight
        \* item1 as the chain of "if item1.rotation ==" leaves it
        firstOf(item1) ==
            IF item1.rotation \in {0, 90, 180, 270}
            THEN item1
            ELSE setXYR(item1, item1.x, item1.y, 0)
        \* "Get the cards close (but not interleaved) and in the same rotation"
        closeTo(item1) ==
            CASE item1.rotation = 0 ->
                   setXYR(item2in, item1.x, item1.y + item1.height, item1.rotation)
              [] item1.rotation = 90 ->
                   setXYR(item2in, item1.x + item1.height, item1.y, item1.rotation)
              [] item1.rotation = 180 ->
                   setXYR(item2in, item1.x, item1.y - item1.height, item1.rotation)
              [] item1.rotation = 270 ->
                   setXYR(item2in, item1.x - item1.height, item1.y, item1.rotation)
              [] OTHER ->
                   setXYR(item2in, item1.x, item1.y + item1.height, 0)
        interleave_x(item1, adjustment) ==
            CASE item1.rotation = 90 -> -adjustment
              [] item1.rotation = 270 -> adjustment
              [] OTHER -> 0
        interleave_y(item1, adjustment) ==
            CASE item1.rotation = 0 -> -adjustment
              [] item1.rotation = 90 -> 0
              [] item1.rotation = 270 -> 0
              [] OTHER -> adjustment
        \* "Normal Dividors": item2 has been rotated
        flipped(item1, item2) ==
            IF tabSidesDiffer(item1, item2) THEN flipFront2Back(item2) ELSE item2
        \* "Set the rotation of the 2nd card"
        rotated(item1, item2) ==
            IF cls.isWrapper
            THEN IF item1.rightSide = item2.rightSide THEN rotate(item2, 180) ELSE item2
            ELSE flipped(item1, rotate(item2, 180))
        \* "Now interleave"
        movedBy(item2, dx, dy) == setXY(item2, item2.x + dx, item2.y + dy)
        \* item1 has been set to x, y; item2 has been set close to it
        pair(item1, item2, adjustment) ==
            IF item1.isTabCentred \/ item2.isTabCentred
               \/ (cls.dividerWidth < 2 * cls.tabWidth)
            THEN [ item1 |-> firstOf(item1), item2 |-> item2,
                   height |-> item1.height + item2.height ]
            ELSE [ item1 |-> firstOf(item1),
                   item2 |-> movedBy(rotated(item1, item2),
                                     interleave_x(item1, adjustment),
                                     interleave_y(item1, adjustment)),
                   height |-> item1.height + item2.height - adjustment ]
        placed(item1) == pair(item1, closeTo(item1), adjustmentOf(item1))
    IN placed(setXY(item1in, x, y))

\* the two loops of interleaveList; all: the items of the page, idxs: the
\* positions in all of the items of the list still to be placed
RECURSIVE interleaveLoop(_, _, _, _, _, _, _)
interleaveLoop(cls, all, idxs, x, y, height, isUpDown) ==
    LET sign == 1
        \* r: what interleave(i1, i2, x, y) did and returned
        afterPair(r) ==
            interleaveLoop(cls, [ all EXCEPT ![idxs[1]] = r.item1, ![idxs[2]] = r.item2 ],
                           Tail(Tail(idxs)),
                           IF isUpDown THEN x ELSE x + sign * r.height,
                           IF isUpDown THEN y + sign * r.height ELSE y,
                           sign * r.height, isUpDown)
        \* i1: the leftover single after i1.setXY(x, y)
        afterSingle(i1) ==
            interleaveLoop(cls, [ all EXCEPT ![idxs[1]] = i1 ],
                           Tail(idxs),
                           IF isUpDown THEN x ELSE x + sign * i1.height,
                           IF isUpDown THEN y + sign * i1.height ELSE y,
                           sign * i1.height, isUpDown)
    IN
    IF Len(idxs) > 1
    THEN afterPair(interleave(cls, all[idxs[1]], all[idxs[2]], x, y))
    ELSE IF Len(idxs) = 1
    THEN afterSingle(setXY(all[idxs[1]], x, y))
    ELSE [ all |-> all, height |-> height ]

interleaveList(cls, all, idxs, isUpDown) ==
    IF idxs = << >>
    THEN [ all |-> all, height |-> 0 ]
    ELSE interleaveLoop(cls, all, idxs,
                        IF isUpDown THEN all[idxs[1]].x ELSE 0,
                        IF isUpDown THEN 0 ELSE all[idxs[1]].y,
                        0, isUpDown)


\* the sequence from, from+1, .., to (range(from-1, to) of the code, 1-based)
RECURSIVE consecutive(_, _)
consecutive(from, to) ==
    IF from > to THEN << >> ELSE <<from>> \o consecutive(from + 1, to)

\* paginate, the interleaved part: the positions (in the list of items) of
\* the items of one swipe of the field, in the order of the swipe.
\* field[row][column] holds items[row*columns + column] when it exists.
swipeOf(self, n, k, doUpDown) ==
    IF doUpDown
    THEN \* column k: rows 0 .. rows-1
         SelectSeq([ row \in 1..self.rows |-> (row - 1) * self.columns + k + 1 ],
                   LAMBDA i : i <= n)
    ELSE \* row k: columns 0 .. columns-1
         SelectSeq([ column \in 1..self.columns |-> k * self.columns + (column - 1) + 1 ],
                   LAMBDA i : i <= n)

\* for swipe in interleaveList: delta = interleaveList(swipe); newHeight = max(...)
RECURSIVE interleaveSwipes(_, _, _, _, _, _, _)
interleaveSwipes(cls, self, all, k, count, newHeight, doUpDown) ==
    LET afterSwipe(r) ==
            interleaveSwipes(cls, self, r.all, k + 1, count,
                             Max(newHeight, r.height), doUpDown)
    IN
    IF k >= count
    THEN [ all |-> all, newHeight |-> newHeight ]
    ELSE afterSwipe(interleaveList(cls, all, swipeOf(self, Len(all), k, doUpDown),
                                   doUpDown))

\* PageLayout.paginate.  error: the code raises IndexError (items[i] with
\* i >= len(items) while collecting the extras)
paginate(cls, self, itemsIn, pageNumber) ==
    LET n == Len(itemsIn)
        onPage == Min(Max(self.number, 0), n)
        fieldsize == self.rows * self.columns
        indexError == (n > fieldsize) /\ (self.number > n)
        extras == IF (n > fieldsize) /\ (self.number > fieldsize) /\ ~indexError
                  THEN consecutive(fieldsize + 1, self.number)
                  ELSE << >>
        doUpDown == doUpDownOf(cls, self)
        \* "Adjust all relative to the rest of the field"
        moved(swiped) ==
            [ i \in 1..n |->
                IF \E j \in 1..Len(extras) : extras[j] = i
                THEN IF self.layoutIsHorizontal
                     THEN [ swiped.all[i] EXCEPT !.x = swiped.newHeight + cls.extraSpacing ]
                     ELSE [ swiped.all[i] EXCEPT !.y = swiped.newHeight + cls.extraSpacing ]
                ELSE swiped.all[i] ]
        \* "Interleave, but only vertical tabed dividers can be interleaved"
        withExtras(all) ==
            IF extras # << >> /\ (~cls.tabIsHorizontal \/ cls.isWrapper)
            THEN interleaveList(cls, all, extras, self.layoutIsHorizontal).all
            ELSE all
        \* "if self.isInterleaved:", all: the items after setItem
        interleaved(all) ==
            withExtras(moved(interleaveSwipes(cls, self, all, 0,
                                              IF doUpDown THEN self.columns ELSE self.rows,
                                              0, doUpDown)))
        result(all) ==
            [ hMargin |-> self.horizontalMargin,
              vMargin |-> self.verticalMargin,
              page    |-> SubSeq(IF self.isInterleaved THEN interleaved(all) ELSE all,
                                 1, onPage),
              error   |-> self.isInterleaved /\ indexError ]
    IN result([ i \in 1..n |-> IF i <= self.number
                               THEN setItem(cls, self, itemsIn[i], i - 1, pageNumber)
                               ELSE itemsIn[i] ])


-----------------------------------------------------------------------------
(* DividerDrawer.setupCardPlots, wantCentreTab *)

\* "right" in options.tab_side
hasRight(tab_side) == tab_side \in {"right", "right-alternate", "right-alternate-text"}

\* "-alternate" in options.tab_side
hasAlternate(tab_side) ==
    tab_side \in {"left-alternate", "left-alternate-text",
                  "right-alternate", "right-alternate-text"}

\* "-alternate-text" in options.tab_side
hasAlternateText(tab_side) == tab_side \in {"left-alternate-text", "right-alternate-text"}

wantCentreTab(o, card) ==
    (card.isExpansion /\ o.centre_expansion_dividers) \/ o.tab_side = "centre"

setupCardPlots(o, cs) ==
    LET startTabSide == ~hasRight(o.tab_side)
        flipTab  == hasAlternate(o.tab_side)
        flipText == hasAlternateText(o.tab_side) /\ ~o.wrapper
        \* the value of tabOnLeft when the k-th card is handled
        tabOnLeft(k) == IF flipTab /\ (k % 2 = 0) THEN ~startTabSide ELSE startTabSide
        height(card) == IF o.wrapper
                        THEN (2 * (o.dividerHeight + card.stackHeight)) + o.verticalBorderSpace
                        ELSE o.dividerHeightReserved
        item(k) == CardPlot(cs[k].id, height(cs[k]), o.dividerWidthReserved,
                            cs[k].stackHeight, tabOnLeft(k),
                            o.text_front, o.text_back, wantCentreTab(o, cs[k]))
    IN [ k \in 1..Len(cs) |->
           IF flipText /\ (tabOnLeft(k) # startTabSide)
           THEN flipFront2Back(item(k))
           ELSE item(k) ]

-----------------------------------------------------------------------------
(* The inputs *)

TabHeights == { 2 }

PaperSizes == { 2 * k : k \in 5..MaxPaperUnits }

MinMargins == { <<0, 0>>, <<2, 0>>, <<0, 2>> }

DividerSizes == { <<4, 6>>, <<8, 4>>, <<4, 4>> }

StackHeights == { 0, 2 }

\* one card list: n cards, stack heights all equal to first, or alternating
CardList(n, first, alt) ==
    [ k \in 1..n |-> [ id |-> k,
                       stackHeight |-> IF alt /\ (k % 2 = 0) THEN 2 - first ELSE first,
                       isExpansion |-> FALSE,
                       \* card.extra: every second card has no rules text
                       extra |-> (k % 2 = 1) ] ]

\* the card lists: stack heights differ for wrappers only
CardLists(wrapper) ==
    IF wrapper
    THEN { CardList(n, 0, FALSE) : n \in 0..MaxCards }
         \cup { CardList(n, first, TRUE) : n \in 0..MaxCards, first \in StackHeights }
    ELSE { CardList(n, 0, FALSE) : n \in 0..MaxCards }

Options ==
    { [ paperwidth |-> pw, paperheight |-> ph,
        minHorizontalMargin |-> mm[1], minVerticalMargin |-> mm[2],
        dividerWidth |-> ds[1], dividerWidthReserved |-> ds[1],
        dividerHeightReserved |-> ds[2],
        dividerHeight |-> IF w THEN ds[2] \div 2 ELSE ds[2],
        dividerBaseHeight |-> (IF w THEN ds[2] \div 2 ELSE ds[2]) - th,
        verticalBorderSpace |-> 0,
        labelWidth |-> lw,
        optimize_extra |-> ex, optimize_interleave |-> il,
        optimize_rotate |-> ro, wrapper |-> w,
        orientation |-> ori, tab_side |-> ts,
        centre_expansion_dividers |-> FALSE,
        cropmarks |-> cm, cropmarkLength |-> 1, cropmarkSpacing |-> 0,
        text_front |-> "card", text_back |-> "rules",
        tabs_only |-> FALSE, no_page_footer |-> FALSE,
        order |-> "expansion", num_pages |-> -1 ] :
        pw \in PaperSizes, ph \in PaperSizes, mm \in MinMargins,
        ds \in DividerSizes, th \in TabHeights, lw \in {2, 4}, ex \in BOOLEAN, il \in BOOLEAN,
        ro \in BOOLEAN, w \in BOOLEAN,
        ori \in {"horizontal", "vertical"},
        ts \in {"left", "left-alternate", "centre"}, cm \in BOOLEAN }

\* options that make no difference to the run are kept at one value
Relevant(o) ==
    /\ (~o.optimize_extra => ~o.cropmarks)
    /\ (~o.optimize_interleave => o.labelWidth = 2)
    /\ (~o.optimize_interleave \/ 2 * o.labelWidth > o.dividerWidth =>
          o.orientation = "horizontal" /\ o.tab_side = "left")

Inputs == { o \in Options : Relevant(o) }

\* no layout has been computed yet
NoLayout == [ number |-> -1 ]

\* DividerDrawer.__init__: no options yet
NoOptions == [ wrapper |-> FALSE ]

\* DividerDrawer.__init__: self.canvas = None
NoCanvas == [ saves |-> 0, restores |-> 0, showPages |-> 0, isNone |-> TRUE ]

\* canvas.Canvas(...): nothing has been called on it
Canvas == [ saves |-> 0, restores |-> 0, showPages |-> 0, isNone |-> FALSE ]

\* no Plotter has been made
NoPlotter == [ made |-> FALSE ]

\* CardPlot.translate has not been called
NoFrame == [ set |-> FALSE ]

\* nothing has been drawn, translateCropmarkEnable has not been called
NothingDrawn ==
    /\ canvas = NoCanvas
    /\ drawn = << >>
    /\ pageNum = 0
    /\ itemNum = 0
    /\ askedSide = 0
    /\ cropmark = FALSE
    /\ rotateDelta = 0
    /\ plotter = NoPlotter
    /\ frame = NoFrame

Init ==
    /\ options = NoOptions
    /\ cards = << >>
    /\ items = << >>
    /\ layout = NoLayout
    /\ pages = << >>
    /\ pc = "new"
    /\ splitI = 0
    /\ thisLayout = NoLayout
    /\ itemsPage = << >>
    /\ maxHeight = 0
    /\ pageOffset = 1
    /\ hMargin = 0
    /\ vMargin = 0
    /\ NothingDrawn

-----------------------------------------------------------------------------
(* DividerDrawer.drawDividers, convert2pages, split *)

cls == PageLayoutAttrs(options)

\* max(i.height for i in s), s not empty
RECURSIVE maxHeightOf(_)
maxHeightOf(s) ==
    IF Len(s) = 1 THEN s[1].height ELSE Max(s[1].height, maxHeightOf(Tail(s)))

\* slice starting one item late
sliceLate(l, from, to) == SubSeq(l, from + 2, Min(Max(to, from), Len(l)))

\* l[from:to] of the code, 0-based and clipped to the list
slice(l, from, to) == SubSeq(l, from + 1, Min(Max(to, from), Len(l)))

\* draw(cards, options) and the first lines of drawDividers, up to the choice
\* of the driver
draw ==
    /\ pc = "new"
    /\ \E o \in Inputs : \E cs \in CardLists(o.wrapper) :
         /\ options' = o
         /\ cards' = cs
         /\ items' = setupCardPlots(o, cs)
         /\ layout' = getPageLayout(o, -1, FALSE)
         /\ pc' = IF ~(o.wrapper \/ o.optimize_interleave) THEN "split" ELSE "greedy"
    /\ hMargin' = layout'.horizontalMargin
    /\ vMargin' = layout'.verticalMargin
    /\ canvas' = Canvas
    /\ UNCHANGED <<drawn, pageNum, itemNum, cropVars, callVars>>
    /\ UNCHANGED <<pages, splitI, thisLayout, itemsPage, maxHeight, pageOffset>>

\* convert2pages: one turn of the while loop of split, the page paginated
SplitYield ==
    /\ pc = "split"
    /\ splitI < Len(items) - layout.number
    /\ Len(pages) < MaxPages
    /\ LET append(p) ==
               /\ pages' = Append(pages, [ hMargin |-> p.hMargin, vMargin |-> p.vMargin,
                                           page |-> p.page ])
               /\ pc' = IF p.error THEN "error" ELSE "split"
       IN append(paginate(cls, layout, slice(items, splitI, splitI + layout.number),
                          Len(pages) + 1))
    /\ splitI' = splitI + layout.number
    /\ UNCHANGED <<renderVars, cropVars, callVars>>
    /\ UNCHANGED <<options, cards, items, layout, thisLayout, itemsPage,
                   maxHeight, pageOffset, hMargin, vMargin>>

\* convert2pages: the last yield of split, the page paginated
SplitLast ==
    /\ pc = "split"
    /\ ~(splitI < Len(items) - layout.number)
    /\ LET append(p) ==
               /\ pages' = Append(pages, [ hMargin |-> p.hMargin, vMargin |-> p.vMargin,
                                           page |-> p.page ])
               /\ pc' = IF p.error THEN "error" ELSE "done"
       IN append(paginate(cls, layout, slice(items, splitI, Len(items)), Len(pages) + 1))
    /\ UNCHANGED <<renderVars, cropVars, callVars>>
    /\ UNCHANGED <<options, cards, items, layout, splitI, thisLayout, itemsPage,
                   maxHeight, pageOffset, hMargin, vMargin>>

\* greedy loop: "while items" is true; load the minimum number of items
GreedyLoad ==
    /\ pc = "greedy"
    /\ items # << >>
    /\ LET minNumber == layout.number
           k == Min(Max(minNumber, 0), Len(items))
       IN /\ itemsPage' = SubSeq(items, 1, k)
          /\ items' = SubSeq(items, k + 1, Len(items))
          /\ thisLayout' = layout
          /\ IF k = 0
             THEN \* max() of an empty sequence raises ValueError
                  /\ pc' = "error"
                  /\ maxHeight' = maxHeight
             ELSE /\ pc' = "tryMore"
                  /\ maxHeight' = maxHeightOf(itemsPage')
    /\ UNCHANGED <<renderVars, cropVars, callVars>>
    /\ UNCHANGED <<options, cards, layout, pages, splitI, pageOffset, hMargin, vMargin>>

\* "if tryLayout.number > thisLayout.number": it is a better layout
isBetterLayoutOrSame(tryLayout, current) == tryLayout.number >= current.number

isBetterLayout(tryLayout, current) == tryLayout.number > current.number

\* the layout tried for one more item
tryLayoutOf ==
    LET tryHeight == Max(maxHeight, items[1].height)
        hasCenterTab == (\E k \in 1..Len(itemsPage) : itemsPage[k].isTabCentred)
                        \/ items[1].isTabCentred
        tryInterleave == options.optimize_interleave /\ ~hasCenterTab
    IN getPageLayout(options, tryHeight, tryInterleave)

\* greedy loop: one more item fits
GreedyAdmit ==
    /\ pc = "tryMore"
    /\ items # << >>
    /\ LET number == thisLayout.number + 1
           admit(tryLayout) ==
               /\ isBetterLayout(tryLayout, thisLayout)
               /\ thisLayout' = [ tryLayout EXCEPT
                                    !.number = number,
                                    !.extra = IF number > (tryLayout.rows * tryLayout.columns)
                                              THEN number - (tryLayout.rows * tryLayout.columns)
                                              ELSE 0 ]
       IN admit(tryLayoutOf)
    /\ maxHeight' = Max(maxHeight, items[1].height)
    /\ itemsPage' = Append(itemsPage, items[1])
    /\ items' = Tail(items)
    /\ UNCHANGED <<renderVars, cropVars, callVars>>
    /\ UNCHANGED <<options, cards, layout, pages, pc, splitI, pageOffset, hMargin, vMargin>>

\* greedy loop: no more item fits or none is left; the page is paginated
GreedyClose ==
    /\ pc = "tryMore"
    /\ IF items = << >> THEN TRUE ELSE ~isBetterLayout(tryLayoutOf, thisLayout)
    /\ LET append(p) ==
               /\ pages' = Append(pages, [ hMargin |-> p.hMargin, vMargin |-> p.vMargin,
                                           page |-> p.page ])
               /\ pc' = IF p.error THEN "error" ELSE "greedy"
       IN append(paginate(cls, thisLayout, itemsPage, pageOffset))
    /\ pageOffset' = pageOffset + 1
    /\ hMargin' = Min(hMargin, thisLayout.horizontalMargin)
    /\ vMargin' = Min(vMargin, thisLayout.verticalMargin)
    /\ UNCHANGED <<renderVars, cropVars, callVars>>
    /\ UNCHANGED <<options, cards, items, layout, splitI, thisLayout, itemsPage, maxHeight>>

\* greedy loop: "while items" is false
GreedyDone ==
    /\ pc = "greedy"
    /\ items = << >>
    /\ pc' = "done"
    /\ UNCHANGED <<renderVars, cropVars, callVars>>
    /\ UNCHANGED <<options, cards, items, layout, pages, splitI, thisLayout,
                   itemsPage, maxHeight, pageOffset, hMargin, vMargin>>

Next ==
    \/ draw
    \/ SplitYield
    \/ SplitLast
    \/ GreedyLoad
    \/ GreedyAdmit
    \/ GreedyClose
    \/ GreedyDone

Spec == Init /\ [][Next]_vars

-----------------------------------------------------------------------------
(* The canvas: the calls of saveState, restoreState and showPage counted   *)

saveState(c) == [ c EXCEPT !.saves = c.saves + 1 ]

restoreState(c) == [ c EXCEPT !.restores = c.restores + 1 ]

showPage(c) == [ c EXCEPT !.showPages = c.showPages + 1 ]

\* drawOutline: returns before saveState for a back without crop marks
drawOutline(c, o, item, isBack) ==
    IF isBack /\ ~o.cropmarks
    THEN c
    ELSE restoreState(saveState(c))

\* no return between the saveState and the restoreState of drawTab
drawTab(c, card, rightSide, wrapper) == restoreState(saveState(c))

\* drawText: three returns between its saveState and its restoreState
drawText(c, card, divider_text, wrapper) ==
    IF divider_text = "blank"
    THEN saveState(c)
    ELSE IF divider_text = "rules"
    THEN IF card.extra THEN restoreState(saveState(c)) ELSE saveState(c)
    ELSE IF divider_text = "card"
    THEN restoreState(saveState(c))
    ELSE saveState(c)

\* drawSetNames: saveState, then try .. finally restoreState
drawSetNames(c, pageItems) == restoreState(saveState(c))

\* drawDivider: the calls made on the canvas
drawDivider(c, o, cs, item, isBack) ==
    LET wrap == IF o.wrapper THEN "front" ELSE "no"
        back == IF o.wrapper THEN FALSE ELSE isBack
        rightSide == IF back THEN ~item.rightSide ELSE item.rightSide
        cardText == IF back THEN item.textTypeBack ELSE item.textTypeFront
        wrapperBack(c4) ==
            IF ~o.tabs_only /\ o.wrapper
            THEN drawText(drawTab(c4, cs[item.card], rightSide, "back"),
                          cs[item.card], item.textTypeBack, "back")
            ELSE c4
        text(c3) ==
            wrapperBack(IF ~o.tabs_only
                        THEN drawText(c3, cs[item.card], cardText, wrap)
                        ELSE c3)
        tab(c2) == text(drawTab(c2, cs[item.card], rightSide, wrap))
        outline(c1) == tab(IF ~o.tabs_only THEN drawOutline(c1, o, item, isBack) ELSE c1)
    IN restoreState(outline(saveState(c)))

\* drawDivider, "Make sure we use the right margins": what it translates by
marginsOf(horizontalMargin, verticalMargin) ==
    [ horizontalMargin |-> IF horizontalMargin < 0 THEN hMargin ELSE horizontalMargin,
      verticalMargin   |-> IF verticalMargin < 0 THEN vMargin ELSE verticalMargin ]

\* the record kept of one call of drawDivider
drawnDivider(item, isBack, margins) ==
    << [ card |-> item.card, isBack |-> isBack,
         horizontalMargin |-> margins.horizontalMargin,
         verticalMargin |-> margins.verticalMargin ] >>

-----------------------------------------------------------------------------
(* drawDividers, "Now go page by page and print the dividers"              *)
(* pc = "done" is the head of the loop over the pages, pageNum the index   *)
(* of the page, itemNum the number of items of it already drawn            *)

paginationVars == <<options, cards, items, layout, pages, splitI, thisLayout,
                    itemsPage, maxHeight, pageOffset, hMargin, vMargin>>

\* "Front page footer"
frontFooter ==
    /\ pc = "done"
    /\ pageNum < Len(pages)
    /\ canvas' = IF ~options.no_page_footer
                    /\ (~options.tabs_only /\ options.order # "global")
                 THEN drawSetNames(canvas, pages[pageNum + 1].page)
                 ELSE canvas
    /\ itemNum' = 0
    /\ pc' = "front"
    /\ UNCHANGED <<paginationVars, drawn, pageNum, cropVars, callVars>>

\* "Front page": one turn of the loop over the items
frontDivider ==
    /\ pc = "front"
    /\ itemNum < Len(pages[pageNum + 1].page)
    /\ canvas' = drawDivider(canvas, options, cards,
                             pages[pageNum + 1].page[itemNum + 1], FALSE)
    /\ drawn' = drawnDivider(pages[pageNum + 1].page[itemNum + 1], FALSE,
                             marginsOf(pages[pageNum + 1].hMargin,
                                       pages[pageNum + 1].vMargin))
    /\ itemNum' = itemNum + 1
    /\ UNCHANGED <<paginationVars, pc, pageNum, cropVars, callVars>>

\* showPage after the front, then the break or the continue
frontShowPage ==
    /\ pc = "front"
    /\ itemNum = Len(pages[pageNum + 1].page)
    /\ canvas' = showPage(canvas)
    /\ IF pageNum + 1 = options.num_pages
       THEN pc' = "rendered" /\ pageNum' = pageNum
       ELSE IF options.tabs_only \/ options.text_back = "none" \/ options.wrapper
       THEN pc' = "done" /\ pageNum' = pageNum + 1
       ELSE pc' = "back-footer" /\ pageNum' = pageNum
    /\ UNCHANGED <<paginationVars, drawn, itemNum, cropVars, callVars>>

\* "back page footer"
backFooter ==
    /\ pc = "back-footer"
    /\ canvas' = IF ~options.no_page_footer /\ options.order # "global"
                 THEN drawSetNames(canvas, pages[pageNum + 1].page)
                 ELSE canvas
    /\ itemNum' = 0
    /\ pc' = "back"
    /\ UNCHANGED <<paginationVars, drawn, pageNum, cropVars, callVars>>

\* "Back page": one turn of the loop over the items
backDivider ==
    /\ pc = "back"
    /\ itemNum < Len(pages[pageNum + 1].page)
    /\ canvas' = drawDivider(canvas, options, cards,
                             pages[pageNum + 1].page[itemNum + 1], TRUE)
    /\ drawn' = drawnDivider(pages[pageNum + 1].page[itemNum + 1], TRUE,
                             marginsOf(pages[pageNum + 1].hMargin,
                                       pages[pageNum + 1].vMargin))
    /\ itemNum' = itemNum + 1
    /\ UNCHANGED <<paginationVars, pc, pageNum, cropVars, callVars>>

\* showPage after the back, then the break or the next page
backShowPage ==
    /\ pc = "back"
    /\ itemNum = Len(pages[pageNum + 1].page)
    /\ canvas' = showPage(canvas)
    /\ IF pageNum + 1 = options.num_pages
       THEN pc' = "rendered" /\ pageNum' = pageNum
       ELSE pc' = "done" /\ pageNum' = pageNum + 1
    /\ UNCHANGED <<paginationVars, drawn, itemNum, cropVars, callVars>>

\* the loop over the pages is exhausted
renderEnd ==
    /\ pc = "done"
    /\ pageNum = Len(pages)
    /\ pc' = "rendered"
    /\ UNCHANGED <<paginationVars, renderVars, cropVars, callVars>>

\* the options of a run that is rendered: one paper size, the natural
\* orientation, and the options that the rendering reads
RenderInputs ==
    { [ o EXCEPT !.tabs_only = to, !.text_back = tb,
                 !.no_page_footer = nf, !.num_pages = np ] :
        o \in { i \in Inputs : /\ i.paperwidth = 10 /\ i.paperheight = 10
                                /\ ~i.optimize_extra /\ ~i.optimize_rotate
                                /\ i.tab_side = "left" /\ i.labelWidth = 2 },
        to \in BOOLEAN, tb \in { "rules", "blank", "none" },
        nf \in BOOLEAN, np \in { -1, 1 } }

\* draw(cards, options) and the first lines of drawDividers, for these options
renderDraw ==
    /\ pc = "new"
    /\ \E o \in RenderInputs : \E cs \in CardLists(o.wrapper) :
         /\ options' = o
         /\ cards' = cs
         /\ items' = setupCardPlots(o, cs)
         /\ layout' = getPageLayout(o, -1, FALSE)
         /\ pc' = IF ~(o.wrapper \/ o.optimize_interleave) THEN "split" ELSE "greedy"
    /\ hMargin' = layout'.horizontalMargin
    /\ vMargin' = layout'.verticalMargin
    /\ canvas' = Canvas
    /\ UNCHANGED <<drawn, pageNum, itemNum, cropVars, callVars>>
    /\ UNCHANGED <<pages, splitI, thisLayout, itemsPage, maxHeight, pageOffset>>

RenderNext ==
    \/ renderDraw
    \/ SplitYield
    \/ SplitLast
    \/ GreedyLoad
    \/ GreedyAdmit
    \/ GreedyClose
    \/ GreedyDone
    \/ frontFooter
    \/ frontDivider
    \/ frontShowPage
    \/ backFooter
    \/ backDivider
    \/ backShowPage
    \/ renderEnd

RenderSpec == Init /\ [][RenderNext]_vars

-----------------------------------------------------------------------------
(* PageLayout.paginate on its own: one layout, one batch of items of one   *)
(* size, one page number                                                   *)

PageInit ==
    /\ options = NoOptions
    /\ cards = << >>
    /\ items = << >>
    /\ layout = NoLayout
    /\ pages = << >>
    /\ pc = "page-new"
    /\ splitI = 0
    /\ thisLayout = NoLayout
    /\ itemsPage = << >>
    /\ maxHeight = 0
    /\ pageOffset = 0
    /\ hMargin = 0
    /\ vMargin = 0
    /\ NothingDrawn

\* getPageLayout and setupCardPlots for a batch of n dividers
layoutPage ==
    /\ pc = "page-new"
    /\ \E o \in { i \in Inputs : ~i.wrapper } :
       \E n \in 0..MaxBatch :
       \E tryInterleave \in BOOLEAN :
         /\ options' = o
         /\ cards' = CardList(n, 0, FALSE)
         /\ items' = setupCardPlots(o, cards')
         /\ layout' = getPageLayout(o, -1, tryInterleave)
    /\ \E pageNumber \in 1..MaxPageNumber : pageOffset' = pageNumber
    /\ pc' = "page-layout"
    /\ UNCHANGED <<renderVars, cropVars, callVars>>
    /\ UNCHANGED <<pages, splitI, thisLayout, itemsPage, maxHeight, hMargin, vMargin>>

\* layout.paginate(items, pageNumber)
paginatePage ==
    /\ pc = "page-layout"
    /\ LET single(p) ==
               /\ pages' = << [ hMargin |-> p.hMargin, vMargin |-> p.vMargin,
                                page |-> p.page ] >>
               /\ pc' = IF p.error THEN "page-error" ELSE "paginated"
       IN single(paginate(cls, layout, items, pageOffset))
    /\ UNCHANGED <<renderVars, cropVars, callVars>>
    /\ UNCHANGED <<options, cards, items, layout, splitI, thisLayout, itemsPage,
                   maxHeight, pageOffset, hMargin, vMargin>>

\* layout.paginate(items, pageNumber) called again: the items are the
\* objects that the first call has changed
paginateAgain ==
    /\ pc = "paginated"
    /\ LET again(p) ==
               /\ pages' = Append(pages, [ hMargin |-> p.hMargin, vMargin |-> p.vMargin,
                                           page |-> p.page ])
               /\ pc' = IF p.error THEN "page-error" ELSE "paginated-again"
       IN again(paginate(cls, layout,
                         pages[1].page \o SubSeq(items, Len(pages[1].page) + 1, Len(items)),
                         pageOffset))
    /\ UNCHANGED <<renderVars, cropVars, callVars>>
    /\ UNCHANGED <<options, cards, items, layout, splitI, thisLayout, itemsPage,
                   maxHeight, pageOffset, hMargin, vMargin>>

PageNext ==
    \/ layoutPage
    \/ paginatePage
    \/ paginateAgain

PageSpec == PageInit /\ [][PageNext]_vars

-----------------------------------------------------------------------------
(* PageLayout.paginate for one page: a usable area of 500 x 700 and        *)
(* dividers of 100 x 150 with a tab of 40 x 20, no extras, no interleaving *)

ScenarioMargins == { <<0, 0>>, <<10, 0>>, <<0, 20>>, <<10, 20>> }

ScenarioOptions ==
    { [ paperwidth |-> 500 + (2 * mm[1]), paperheight |-> 700 + (2 * mm[2]),
        minHorizontalMargin |-> mm[1], minVerticalMargin |-> mm[2],
        dividerWidth |-> 100, dividerWidthReserved |-> 100,
        dividerHeightReserved |-> 150,
        dividerHeight |-> 150,
        dividerBaseHeight |-> 150 - 20,
        verticalBorderSpace |-> 0,
        labelWidth |-> 40,
        optimize_extra |-> FALSE, optimize_interleave |-> FALSE,
        optimize_rotate |-> FALSE, wrapper |-> FALSE,
        orientation |-> "horizontal", tab_side |-> ts,
        centre_expansion_dividers |-> FALSE,
        cropmarks |-> cm, cropmarkLength |-> 1, cropmarkSpacing |-> 0,
        text_front |-> "card", text_back |-> "rules",
        tabs_only |-> FALSE, no_page_footer |-> FALSE,
        order |-> "expansion", num_pages |-> -1 ] :
        mm \in ScenarioMargins, ts \in {"left", "left-alternate"}, cm \in BOOLEAN }

\* getPageLayout and setupCardPlots for a batch of n dividers
scenarioLayout ==
    /\ pc = "page-new"
    /\ \E o \in ScenarioOptions :
       \E n \in 0..MaxScenarioBatch :
         /\ options' = o
         /\ cards' = CardList(n, 0, FALSE)
         /\ items' = setupCardPlots(o, cards')
         /\ layout' = getPageLayout(o, -1, FALSE)
    /\ \E pageNumber \in 1..MaxPageNumber : pageOffset' = pageNumber
    /\ pc' = "page-layout"
    /\ UNCHANGED <<renderVars, cropVars, callVars>>
    /\ UNCHANGED <<pages, splitI, thisLayout, itemsPage, maxHeight, hMargin, vMargin>>

ScenarioNext ==
    \/ scenarioLayout
    \/ paginatePage

ScenarioSpec == PageInit /\ [][ScenarioNext]_vars

-----------------------------------------------------------------------------
(* CardPlot.translateCropmarkEnable on its own: one item with any crop     *)
(* flags, rotation and tab side, asked for any of its sides                *)

Rotations == { 0, 90, 180, 270 }

Sides == { LEFT, RIGHT, TOP, BOTTOM }

CropInit ==
    /\ options = NoOptions
    /\ cards = << >>
    /\ items = << >>
    /\ layout = NoLayout
    /\ pages = << >>
    /\ pc = "crop-new"
    /\ splitI = 0
    /\ thisLayout = NoLayout
    /\ itemsPage = << >>
    /\ maxHeight = 0
    /\ pageOffset = 0
    /\ hMargin = 0
    /\ vMargin = 0
    /\ NothingDrawn

\* a CardPlot as pagination can leave it
cropItem ==
    /\ pc = "crop-new"
    /\ \E rotation \in Rotations : \E rightSide \in BOOLEAN :
       \E top \in BOOLEAN : \E bottom \in BOOLEAN :
       \E left \in BOOLEAN : \E right \in BOOLEAN :
         items' = << [ CardPlot(1, 6, 4, 0, rightSide, "card", "rules", FALSE) EXCEPT
                         !.rotation = rotation,
                         !.cropOnTop = top, !.cropOnBottom = bottom,
                         !.cropOnLeft = left, !.cropOnRight = right ] >>
    /\ pc' = "crop-item"
    /\ UNCHANGED <<options, cards, layout, pages, splitI, thisLayout, itemsPage,
                   maxHeight, pageOffset, hMargin, vMargin, renderVars, cropVars, callVars>>

\* item.translateCropmarkEnable(side): it assigns to no attribute of the item
askCropmark ==
    /\ pc \in { "crop-item", "crop-asked" }
    /\ \E s \in Sides :
         /\ askedSide' = s
         /\ cropmark' = translateCropmarkEnable(items[1], s)
    /\ pc' = "crop-asked"
    /\ UNCHANGED <<options, cards, items, layout, pages, splitI, thisLayout, itemsPage,
                   maxHeight, pageOffset, hMargin, vMargin, renderVars, callVars>>

CropNext ==
    \/ cropItem
    \/ askCropmark

CropSpec == CropInit /\ [][CropNext]_vars


-----------------------------------------------------------------------------
(* CardPlot.rotate and CardPlot.flipFront2Back on their own, between calls *)
(* of setItem and interleave: two items of 100 x 150 on the page of        *)
(* 500 x 700                                                               *)

\* the deltas handed to rotate: multiples of 90, negative and beyond 360 too
Deltas == { -90, 90, 540 }

\* the layouts handed to setItem: both candidates of getPageLayout
ItemLayouts == { horizontalLayout(options, -1, FALSE), verticalLayout(options, -1, FALSE) }

\* two CardPlots, their tabs on either side
itemPair ==
    /\ pc = "crop-new"
    /\ \E o \in { so \in ScenarioOptions : /\ so.minHorizontalMargin = 0
                                           /\ so.minVerticalMargin = 0
                                           /\ ~so.cropmarks } :
         options' = o
    /\ \E rightSide1 \in BOOLEAN : \E rightSide2 \in BOOLEAN :
         items' = << CardPlot(1, 150, 100, 0, rightSide1, "card", "rules", FALSE),
                     CardPlot(2, 150, 100, 0, rightSide2, "card", "rules", FALSE) >>
    /\ pc' = "item-made"
    /\ UNCHANGED <<cards, layout, pages, splitI, thisLayout, itemsPage,
                   maxHeight, pageOffset, hMargin, vMargin, renderVars, cropVars, callVars>>

itemMade == pc \in { "item-made", "item-rotated", "item-flipped", "item-set", "item-interleaved" }

\* item.rotate(delta)
rotateItem ==
    /\ itemMade
    /\ \E k \in 1..2 : \E d \in Deltas :
         /\ rotateDelta' = d
         /\ items' = [ items EXCEPT ![k] = rotate(items[k], d) ]
    /\ pc' = "item-rotated"
    /\ UNCHANGED <<options, cards, layout, pages, splitI, thisLayout, itemsPage,
                   maxHeight, pageOffset, hMargin, vMargin, renderVars, cropVars,
                   plotter, frame>>

\* item.flipFront2Back()
flipItem ==
    /\ itemMade
    /\ \E k \in 1..2 : items' = [ items EXCEPT ![k] = flipFront2Back(items[k]) ]
    /\ pc' = "item-flipped"
    /\ UNCHANGED <<options, cards, layout, pages, splitI, thisLayout, itemsPage,
                   maxHeight, pageOffset, hMargin, vMargin, renderVars, cropVars, callVars>>

\* layout.setItem(item, itemOnPage, pageNumber) for the first item of a page
setItemOn ==
    /\ itemMade
    /\ \E k \in 1..2 : \E self \in ItemLayouts :
         items' = [ items EXCEPT ![k] = setItem(cls, self, items[k], 0, 1) ]
    /\ pc' = "item-set"
    /\ UNCHANGED <<options, cards, layout, pages, splitI, thisLayout, itemsPage,
                   maxHeight, pageOffset, hMargin, vMargin, renderVars, cropVars, callVars>>

\* layout.interleave(item1, item2): x and y not given
interleavePair ==
    /\ itemMade
    /\ LET both(r) == items' = << r.item1, r.item2 >>
       IN both(interleave(cls, items[1], items[2], items[1].x, items[1].y))
    /\ pc' = "item-interleaved"
    /\ UNCHANGED <<options, cards, layout, pages, splitI, thisLayout, itemsPage,
                   maxHeight, pageOffset, hMargin, vMargin, renderVars, cropVars, callVars>>

ItemNext ==
    \/ itemPair
    \/ rotateItem
    \/ flipItem
    \/ setItemOn
    \/ interleavePair

ItemSpec == CropInit /\ [][ItemNext]_vars

-----------------------------------------------------------------------------
(* Plotter: lengths in tenths of a unit                                    *)

\* the pen constants of Plotter
LINE == 5

NO_LINE == 6

DOT == 7

\* "pen=False", the default of move
NoPen == 0

\* self.DotSize, in tenths
DotSize == 2

\* Plotter.__init__; lines and dots: what canvas.line and canvas.circle have
\* been called with
Plotter(x, y, cropmarkLength, cropmarkSpacing) ==
    [ made |-> TRUE, x |-> x, y |-> y,
      CropMarkLength  |-> IF cropmarkLength < 0 THEN 2 ELSE cropmarkLength,
      CropMarkSpacing |-> IF cropmarkSpacing < 0 THEN 1 ELSE cropmarkSpacing,
      lines |-> << >>, dots |-> << >> ]

\* Plotter.setXY
plotterSetXY(self, x, y) == [ self EXCEPT !.x = x, !.y = y ]

\* Plotter.move
move(self, delta_x, delta_y, pen) ==
    [ self EXCEPT
        !.lines = IF pen = LINE
                  THEN Append(self.lines, <<self.x, self.y, self.x + delta_x, self.y + delta_y>>)
                  ELSE self.lines,
        !.dots = IF pen = DOT
                 THEN Append(self.dots, <<self.x + delta_x, self.y + delta_y, DotSize>>)
                 ELSE self.dots,
        !.x = self.x + delta_x,
        !.y = self.y + delta_y ]

\* the four "if direction ==" of cropmark, one after the other
cropmarkMoves(self, direction) ==
    LET left(p) ==
            IF direction = LEFT
            THEN move(move(p, -p.CropMarkSpacing, 0, NoPen), -p.CropMarkLength, 0, LINE)
            ELSE p
        right(p) ==
            left(IF direction = RIGHT
                 THEN move(move(p, p.CropMarkSpacing, 0, NoPen), p.CropMarkLength, 0, LINE)
                 ELSE p)
        bottom(p) ==
            right(IF direction = BOTTOM
                  THEN move(move(p, 0, -p.CropMarkSpacing, NoPen), 0, -p.CropMarkLength, LINE)
                  ELSE p)
    IN bottom(IF direction = TOP
              THEN move(move(self, 0, self.CropMarkSpacing, NoPen), 0, self.CropMarkLength, LINE)
              ELSE self)

\* cropmark that stays at the end of the mark
plotCropmarkNoReturn(self, enabled, direction) ==
    IF enabled THEN cropmarkMoves(self, direction) ELSE self

\* Plotter.cropmark
plotCropmark(self, enabled, direction) ==
    IF enabled
    THEN plotterSetXY(cropmarkMoves(self, direction), self.x, self.y)
    ELSE self

\* the deltas handed to move
PenDeltas == { <<1, 0>>, <<0, -1>>, <<-2, 3>> }

\* plotter = Plotter(canvas, x, y, cropmarkLength, cropmarkSpacing); called:
\* the last call made on it, start and moved: where it started and the sum
\* of the deltas handed to move since
makePlotter ==
    /\ pc = "crop-new"
    /\ \E start \in { <<0, 0>>, <<1, 4>> } : \E marks \in { <<-1, -1>>, <<3, 0>> } :
         plotter' = [ plotter |-> Plotter(start[1], start[2], marks[1], marks[2]),
                      made |-> TRUE,
                      start |-> start, moved |-> <<0, 0>>, calls |-> 0,
                      called |-> [ op |-> "Plotter" ] ]
    /\ pc' = "plotter-made"
    /\ UNCHANGED <<options, cards, items, layout, pages, splitI, thisLayout, itemsPage,
                   maxHeight, pageOffset, hMargin, vMargin, renderVars, cropVars,
                   rotateDelta, frame>>

\* plotter.move(delta_x, delta_y, pen)
plotterMove ==
    /\ pc = "plotter-made"
    /\ plotter.calls < MaxCalls
    /\ \E d \in PenDeltas : \E pen \in { NoPen, LINE, NO_LINE, DOT } :
         plotter' = [ plotter EXCEPT
                        !.plotter = move(plotter.plotter, d[1], d[2],
                                         IF pen = NoPen THEN NO_LINE ELSE pen),
                        !.moved = <<plotter.moved[1] + d[1], plotter.moved[2] + d[2]>>,
                        !.calls = plotter.calls + 1,
                        !.called = [ op |-> "move", delta_x |-> d[1], delta_y |-> d[2],
                                     pen |-> pen ] ]
    /\ UNCHANGED <<options, cards, items, layout, pages, pc, splitI, thisLayout, itemsPage,
                   maxHeight, pageOffset, hMargin, vMargin, renderVars, cropVars,
                   rotateDelta, frame>>

\* plotter.cropmark(enabled, direction)
plotterCropmark ==
    /\ pc = "plotter-made"
    /\ plotter.calls < MaxCalls
    /\ \E enabled \in BOOLEAN : \E direction \in Sides :
         plotter' = [ plotter EXCEPT
                        !.plotter = plotCropmark(plotter.plotter, enabled, direction),
                        !.calls = plotter.calls + 1,
                        !.called = [ op |-> "cropmark", enabled |-> enabled,
                                     direction |-> direction ] ]
    /\ UNCHANGED <<options, cards, items, layout, pages, pc, splitI, thisLayout, itemsPage,
                   maxHeight, pageOffset, hMargin, vMargin, renderVars, cropVars,
                   rotateDelta, frame>>

PlotNext ==
    \/ makePlotter
    \/ plotterMove
    \/ plotterCropmark

PlotSpec == CropInit /\ [][PlotNext]_vars

-----------------------------------------------------------------------------
(* CardPlot.translate on its own: one item anywhere on a page, translated  *)
(* for the front or the back of a page of some width                       *)

\* translate without "x = page_width - x - self.width"
translateNoMirror(self, page_width, backside) ==
    LET x == IF self.rotation = 180 THEN self.x + self.width
             ELSE IF self.rotation = 90 /\ backside THEN self.x + self.width
             ELSE IF self.rotation = 270 /\ backside
                  THEN self.x + (self.width - self.height)
             ELSE IF self.rotation = 270 THEN self.x + self.height
             ELSE self.x
        y == IF self.rotation = 180 THEN self.y + self.height
             ELSE IF self.rotation = 90 /\ ~backside THEN self.y + self.width
             ELSE IF self.rotation = 270 /\ backside THEN self.y + self.width
             ELSE self.y
        rotation == IF self.rotation = 90 /\ backside THEN 270
                    ELSE IF self.rotation = 270 /\ backside THEN 90
                    ELSE self.rotation
    IN [ x |-> x, y |-> y, rotation |-> 360 - (rotation % 360) ]

\* the arguments of canvas.translate(x, y) and canvas.rotate(rotation); the
\* x, y and rotation of the code are locals, the item is not assigned to
translate(self, page_width, backside) ==
    LET mirrored == IF backside THEN page_width - self.x - self.width ELSE self.x
        x == IF self.rotation = 180 THEN mirrored + self.width
             ELSE IF self.rotation = 90 /\ backside THEN mirrored + self.width
             ELSE IF self.rotation = 270 /\ backside
                  THEN mirrored + (self.width - self.height)
             ELSE IF self.rotation = 270 THEN mirrored + self.height
             ELSE mirrored
        y == IF self.rotation = 180 THEN self.y + self.height
             ELSE IF self.rotation = 90 /\ ~backside THEN self.y + self.width
             ELSE IF self.rotation = 270 /\ backside THEN self.y + self.width
             ELSE self.y
        rotation == IF self.rotation = 90 /\ backside THEN 270
                    ELSE IF self.rotation = 270 /\ backside THEN 90
                    ELSE self.rotation
    IN [ x |-> x, y |-> y, rotation |-> 360 - (rotation % 360) ]

\* where the item is on its page, and its width and height
Places == { <<0, 0>>, <<2, 0>>, <<5, 3>> }

PageWidths == { 20, 30 }

\* a CardPlot as pagination can leave it
frameItem ==
    /\ pc = "crop-new"
    /\ \E place \in Places : \E size \in DividerSizes : \E rotation \in Rotations :
         items' = << setXYR(CardPlot(1, size[2], size[1], 0, TRUE, "card", "rules", FALSE),
                            place[1], place[2], rotation) >>
    /\ pc' = "frame-item"
    /\ UNCHANGED <<options, cards, layout, pages, splitI, thisLayout, itemsPage,
                   maxHeight, pageOffset, hMargin, vMargin, renderVars, cropVars, callVars>>

\* item.translate(canvas, page_width, backside)
translateItem ==
    /\ pc \in { "frame-item", "frame-set" }
    /\ \E page_width \in PageWidths : \E backside \in BOOLEAN :
         frame' = [ set |-> TRUE, page_width |-> page_width, backside |-> backside,
                    canvas |-> translate(items[1], page_width, backside) ]
    /\ pc' = "frame-set"
    /\ UNCHANGED <<options, cards, items, layout, pages, splitI, thisLayout, itemsPage,
                   maxHeight, pageOffset, hMargin, vMargin, renderVars, cropVars,
                   rotateDelta, plotter>>

FrameNext ==
    \/ frameItem
    \/ translateItem

FrameSpec == CropInit /\ [][FrameNext]_vars

-----------------------------------------------------------------------------
(* Definitions used to state the properties *)

\* the candidates of getPageLayout: the natural one and the one rotated by 90
naturalLayout(o, maxHeightArg, tryInterleave) ==
    IF isNaturalHorizontal(o, maxHeightArg)
    THEN horizontalLayout(o, maxHeightArg, tryInterleave)
    ELSE verticalLayout(o, maxHeightArg, tryInterleave)

rotatedLayout(o, maxHeightArg, tryInterleave) ==
    IF isNaturalHorizontal(o, maxHeightArg)
    THEN verticalLayout(o, maxHeightArg, tryInterleave)
    ELSE horizontalLayout(o, maxHeightArg, tryInterleave)

Ceil(n, c) == (n + c - 1) \div c

\* the cards of all pages, in page order and in list order within a page
RECURSIVE cardsOfPages(_)
cardsOfPages(ps) ==
    IF ps = << >> THEN << >>
    ELSE [ k \in 1..Len(ps[1].page) |-> ps[1].page[k].card ] \o cardsOfPages(Tail(ps))

usesSplit == ~(options.wrapper \/ options.optimize_interleave)

started == pc # "new"

-----------------------------------------------------------------------------
(* C1: with at least one item and a base layout of capacity > 0, pagination *)
(* (either driver) terminates; at the end every item is on exactly one     *)
(* page, its page number is the position of that page (>= 1), and the      *)
(* pages read in order give the items in input order.                      *)

C1_Feasible == Len(cards) >= 1 /\ layout.number > 0

C1_Placed ==
    (pc = "done" /\ C1_Feasible) =>
        /\ cardsOfPages(pages) = [ k \in 1..Len(cards) |-> cards[k].id ]
        /\ \A p \in 1..Len(pages) : \A k \in 1..Len(pages[p].page) :
               pages[p].page[k].page = p /\ p >= 1

\* before "done" the run has not raised an error and has a next step: the
\* steps at "greedy" and at "tryMore" have complementary guards, the steps
\* at "split" need room in the page list
C1_NotStuck ==
    (C1_Feasible /\ pc # "done") =>
        /\ pc \in {"split", "greedy", "tryMore"}
        /\ (pc = "split" /\ splitI < Len(items) - layout.number
              => Len(pages) < MaxPages)

\* a bound on the number of steps still to be taken
C1_Variant ==
    CASE pc = "new"     -> 0
      [] pc = "split"   -> Len(items) - splitI + 1
      [] pc = "greedy"  -> 2 * Len(items) + 1
      [] pc = "tryMore" -> 2 * Len(items) + 2
      [] OTHER          -> 0

\* termination: no step is missing before "done", and every step lowers a
\* non-negative bound on the number of steps still to be taken
C1_Pagination ==
    /\ [] (C1_Placed /\ C1_NotStuck /\ C1_Variant >= 0)
    /\ [][C1_Feasible => C1_Variant' < C1_Variant]_vars

C1_Witness ==
    /\ pc = "done" /\ C1_Feasible
    /\ ~usesSplit
    /\ Len(pages) >= 2
    /\ Len(pages[1].page) > layout.number

-----------------------------------------------------------------------------
(* C2: for every item count N, N = 0 included, and capacity C > 0,         *)
(* convert2pages returns exactly ceil(N/C) pages of at most C items each.  *)

C2_CeilPages ==
    (pc = "done" /\ usesSplit /\ layout.number > 0) =>
        /\ Len(pages) = Ceil(Len(cards), layout.number)
        /\ \A p \in 1..Len(pages) : Len(pages[p].page) <= layout.number

-----------------------------------------------------------------------------
(* C3: when the layout has capacity 0 and there is at least one item, no   *)
(* page with zero items is ever appended to the page list.                 *)

C3_NoEmptyPage ==
    (started /\ layout.number = 0 /\ Len(cards) >= 1) =>
        \A p \in 1..Len(pages) : pages[p].page # << >>

-----------------------------------------------------------------------------
(* C4 as claimed: for every option combination the layout returned by      *)
(* getPageLayout has number = max(natural.number, rotated.number).         *)

C4_AlwaysMax ==
    started =>
        layout.number = Max(naturalLayout(options, -1, FALSE).number,
                            rotatedLayout(options, -1, FALSE).number)

(* C4 as amended: with optimize_rotate the returned layout has number =    *)
(* max(natural.number, rotated.number); without optimize_rotate the        *)
(* natural candidate is returned whatever the numbers are.                 *)

C4_MaxWhenRotate ==
    started =>
        IF options.optimize_rotate
        THEN layout.number = Max(naturalLayout(options, -1, FALSE).number,
                                 rotatedLayout(options, -1, FALSE).number)
        ELSE layout = naturalLayout(options, -1, FALSE)

C4_Witness ==
    /\ started
    /\ options.optimize_rotate
    /\ rotatedLayout(options, -1, FALSE).number > naturalLayout(options, -1, FALSE).number
    /\ layout = rotatedLayout(options, -1, FALSE)

-----------------------------------------------------------------------------
(* C5: with optimize_rotate and equal numbers of the two candidates,       *)
(* getPageLayout returns the candidate with strictly fewer extras and the  *)
(* natural one when the extras are equal, whichever layout is natural.     *)

C5_FewestExtras ==
    LET nat == naturalLayout(options, -1, FALSE)
        rot == rotatedLayout(options, -1, FALSE)
    IN (started /\ options.optimize_rotate /\ nat.number = rot.number) =>
           layout = IF rot.extra < nat.extra THEN rot ELSE nat

-----------------------------------------------------------------------------
(* C6: with extras and interleaving disabled and equal rows*columns of the *)
(* two candidates, getPageLayout returns the natural candidate, of field   *)
(* rotation 0.                                                             *)

C6_Tie ==
    LET nat == naturalLayout(options, -1, FALSE)
        rot == rotatedLayout(options, -1, FALSE)
    IN /\ ~options.optimize_extra
       /\ ~options.optimize_interleave
       /\ nat.rows * nat.columns = rot.rows * rot.columns

C6_TieKeepsNatural ==
    (started /\ C6_Tie) =>
        /\ layout = naturalLayout(options, -1, FALSE)
        /\ layout.rotation = 0

C6_Witness ==
    /\ started /\ C6_Tie
    /\ options.optimize_rotate
    /\ layout.number > 0
    /\ layout.rotation = 0
    /\ rotatedLayout(options, -1, FALSE) # naturalLayout(options, -1, FALSE)

-----------------------------------------------------------------------------
(* C7: a layout that is not interleaved has columns = usableWidth div      *)
(* width and rows = usableHeight div height, usable = page - 2*minimum     *)
(* margin; extra # 0 only with extras enabled and a leftover strip (usable *)
(* length - field length - extraSpacing) >= the item's other dimension,    *)
(* and then extra = perpendicular usable length div the item's length in   *)
(* the rotated orientation; number = rows*columns + extra.                 *)

C7_Grid(l) ==
    LET uw == options.paperwidth - 2 * options.minHorizontalMargin
        uh == options.paperheight - 2 * options.minVerticalMargin
        strip == IF l.layoutIsHorizontal
                 THEN uw - l.columns * l.width - cls.extraSpacing
                 ELSE uh - l.rows * l.height - cls.extraSpacing
        fits == IF l.layoutIsHorizontal THEN strip >= l.height ELSE strip >= l.width
    IN /\ l.columns = uw \div l.width
       /\ l.rows = uh \div l.height
       /\ (l.extra # 0 => options.optimize_extra /\ fits)
       /\ (options.optimize_extra /\ fits =>
             l.extra = IF l.layoutIsHorizontal THEN uh \div l.width ELSE uw \div l.height)
       /\ l.number = l.rows * l.columns + l.extra

C7_Calculate ==
    (started /\ ~layout.isInterleaved) => C7_Grid(layout)

C7_Witness ==
    /\ started /\ ~layout.isInterleaved
    /\ layout.extra >= 1
    /\ layout.rows * layout.columns >= 2
    /\ options.minHorizontalMargin + options.minVerticalMargin > 0
    /\ cls.extraSpacing > 0


-----------------------------------------------------------------------------
(* Definitions for the properties of paginate (PageSpec) *)

\* paginate has placed a batch with a layout that is not interleaved
placedPlain == pc = "paginated" /\ ~layout.isInterleaved

thePage == pages[1].page

fieldSize == layout.rows * layout.columns

\* the positions on the page (from 1) of the items of the main field
gridItems == { k \in 1..Len(thePage) : k - 1 < fieldSize }

-----------------------------------------------------------------------------
(* C8: on a layout that is not interleaved, paginate gives the item with   *)
(* index i < rows*columns the position x = (i mod columns)*width,          *)
(* y = (rows-1 - i div columns)*height, the field rotation and the given   *)
(* page number; items with index >= rows*columns get the extra rotation.   *)

C8_GridPosition ==
    placedPlain =>
        \A k \in 1..Len(thePage) :
            LET i == k - 1
                item == thePage[k]
            IN IF i < fieldSize
               THEN /\ item.x = (i % layout.columns) * layout.width
                    /\ item.y = (layout.rows - 1 - (i \div layout.columns)) * layout.height
                    /\ item.rotation = layout.rotation
                    /\ item.page = pageOffset
               ELSE item.rotation = layout.extraRotation

C8_Witness ==
    /\ placedPlain
    /\ layout.rows >= 2 /\ fieldSize >= 2
    /\ Len(thePage) > fieldSize
    /\ thePage[fieldSize].page = 2
    /\ thePage[fieldSize + 1].rotation = 90

-----------------------------------------------------------------------------
(* C9 as claimed: the grid is filled bottom row first: items 0..columns-1  *)
(* are in the bottom row (y = 0) and each following group of `columns`     *)
(* items is in the row above the previous one.                             *)

C9_BottomRowFirst ==
    placedPlain =>
        \A k \in gridItems :
            thePage[k].y = ((k - 1) \div layout.columns) * layout.height

(* C9 as amended: the grid is filled top row first, left to right within a *)
(* row: item 0 is in the top row (y = (rows-1)*height) at x = 0, an item   *)
(* that follows another one in the same row is one width to its right, and *)
(* each following group of `columns` items starts at x = 0 in the row      *)
(* below the previous one.                                                 *)

C9_TopRowFirst ==
    placedPlain =>
        \A k \in gridItems :
            IF k = 1
            THEN thePage[k].x = 0 /\ thePage[k].y = (layout.rows - 1) * layout.height
            ELSE IF (k - 1) % layout.columns = 0
            THEN /\ thePage[k].x = 0
                 /\ thePage[k].y = thePage[k - 1].y - layout.height
            ELSE /\ thePage[k].x = thePage[k - 1].x + layout.width
                 /\ thePage[k].y = thePage[k - 1].y

C9_Witness ==
    /\ placedPlain
    /\ layout.rows >= 3 /\ layout.columns >= 2
    /\ Cardinality(gridItems) = fieldSize
    /\ thePage[fieldSize].y = 0
    /\ thePage[1].y > 0

-----------------------------------------------------------------------------
(* C10: for every grid item placed by setItem, cropOnTop, cropOnBottom,    *)
(* cropOnLeft, cropOnRight are true exactly when the cell the item is      *)
(* placed in is in row rows-1, row 0, column 0, column columns-1; so in a  *)
(* 3x3 grid without extras every boundary cell has a true flag on each of  *)
(* its outward sides and the centre cell has all four flags false.         *)

cellRow(item) == item.y \div layout.height

cellColumn(item) == item.x \div layout.width

C10_CropFlags ==
    placedPlain =>
        \A k \in gridItems :
            LET item == thePage[k] IN
            /\ item.cropOnTop    <=> (cellRow(item) = layout.rows - 1)
            /\ item.cropOnBottom <=> (cellRow(item) = 0)
            /\ item.cropOnLeft   <=> (cellColumn(item) = 0)
            /\ item.cropOnRight  <=> (cellColumn(item) = layout.columns - 1)

isGrid3x3 ==
    /\ placedPlain
    /\ layout.rows = 3 /\ layout.columns = 3 /\ layout.extra = 0
    /\ Len(thePage) = 9

C10_Grid3x3 ==
    isGrid3x3 =>
        \A k \in 1..9 :
            LET item == thePage[k]
                any == item.cropOnTop \/ item.cropOnBottom
                       \/ item.cropOnLeft \/ item.cropOnRight
            IN IF cellRow(item) = 1 /\ cellColumn(item) = 1 THEN ~any ELSE any

C10_CropOnEdges == C10_CropFlags /\ C10_Grid3x3

C10_Witness ==
    /\ isGrid3x3
    /\ \E k \in 1..9 :
         /\ cellRow(thePage[k]) = 1 /\ cellColumn(thePage[k]) = 1
         /\ ~thePage[k].cropOnTop /\ ~thePage[k].cropOnBottom
         /\ ~thePage[k].cropOnLeft /\ ~thePage[k].cropOnRight
    /\ thePage[1].cropOnTop /\ thePage[1].cropOnLeft
    /\ thePage[9].cropOnBottom /\ thePage[9].cropOnRight

-----------------------------------------------------------------------------
(* Claims about the extra region and about interleaved pages (PageSpec)    *)

batchPlaced == pc = "paginated"

\* the positions on the page (from 1) of the items of the extra region
extraItems == { k \in 1..Len(thePage) : k - 1 >= fieldSize }

\* the position e of the item at position k of the page in the extra strip
extraIndex(k) == (k - 1) - fieldSize

-----------------------------------------------------------------------------
(* C11 as claimed: every item of the extra region has both crop flags      *)
(* across the strip true, the first extra item (e = 0) has the leading     *)
(* flag true and the last one (e = extra-1) the trailing flag, in the      *)
(* attributes cropOnTop .. cropOnRight that translateCropmarkEnable reads. *)

C11_ExtraCropFlags ==
    batchPlaced =>
        \A k \in extraItems :
            LET item == thePage[k]
                e == extraIndex(k)
            IN IF layout.layoutIsHorizontal
               THEN /\ item.cropOnLeft /\ item.cropOnRight
                    /\ (e = 0) => item.cropOnBottom
                    /\ (e = layout.extra - 1) => item.cropOnTop
               ELSE /\ item.cropOnTop /\ item.cropOnBottom
                    /\ (e = 0) => item.cropOnLeft
                    /\ (e = layout.extra - 1) => item.cropOnRight

-----------------------------------------------------------------------------
(* C12 as claimed: after paginate on a layout with extras, interleaved or  *)
(* not, every extra item's coordinate perpendicular to the strip (x for a  *)
(* horizontal layout, y for a vertical one) equals the page-space extent   *)
(* of the placed grid along that axis plus the reserved spacing, and its   *)
(* coordinate along the strip starts at 0 and grows with its position e.   *)

\* the page-space size of an item's box: a quarter turn exchanges the sides
boxWidth(item) == IF item.rotation \in {0, 180} THEN item.width ELSE item.height

boxHeight(item) == IF item.rotation \in {0, 180} THEN item.height ELSE item.width

\* the largest of a non-empty set of numbers
Largest(S) == CHOOSE m \in S : \A n \in S : n <= m

\* the extent of the placed grid: the right edge of its rightmost item and
\* the top edge of its topmost item (0 for an empty grid)
gridExtentX == Largest({0} \cup { thePage[k].x + boxWidth(thePage[k]) : k \in gridItems })

gridExtentY == Largest({0} \cup { thePage[k].y + boxHeight(thePage[k]) : k \in gridItems })

C12_Perpendicular ==
    batchPlaced =>
        \A k \in extraItems :
            IF layout.layoutIsHorizontal
            THEN thePage[k].x = gridExtentX + cls.extraSpacing
            ELSE thePage[k].y = gridExtentY + cls.extraSpacing

C12_AlongStrip ==
    batchPlaced =>
        \A k \in extraItems :
            LET along(j) == IF layout.layoutIsHorizontal THEN thePage[j].y ELSE thePage[j].x
            IN IF extraIndex(k) = 0 THEN along(k) = 0 ELSE along(k) > along(k - 1)

C12_ExtraPosition == C12_Perpendicular /\ C12_AlongStrip

-----------------------------------------------------------------------------
(* C13 as claimed: after paginate on any layout, interleaved ones          *)
(* included, a grid item's crop flag is true exactly when that edge of its *)
(* final box lies on the outer boundary of the field.  Stated for the two  *)
(* edges of the field that lie on the axes: cropOnBottom is true exactly   *)
(* for the items whose box starts at y = 0 and cropOnLeft exactly for      *)
(* those whose box starts at x = 0; and an item at y = 0 has cropOnTop     *)
(* false when the layout has more than one row.                            *)

C13_CropOnBoundary ==
    batchPlaced =>
        \A k \in gridItems :
            LET item == thePage[k] IN
            /\ item.cropOnBottom <=> (item.y = 0)
            /\ item.cropOnLeft <=> (item.x = 0)
            /\ (item.y = 0 /\ layout.rows > 1) => ~item.cropOnTop

-----------------------------------------------------------------------------
(* C14 (CropSpec): translateCropmarkEnable(side) returns the page-relative *)
(* crop flag of the page edge that the printed side faces after a          *)
(* clockwise rotation by the item's rotation (0: the same edge; each       *)
(* quarter turn takes top to right, right to bottom, bottom to left, left  *)
(* to top), the results for left and right being exchanged when rightSide  *)
(* is true; for every rotation and rightSide the four sides read four      *)
(* different flags; and the call changes no field of the CardPlot.         *)

\* the edge a quarter turn clockwise takes an edge to
quarterTurn(edge) ==
    CASE edge = TOP -> RIGHT
      [] edge = RIGHT -> BOTTOM
      [] edge = BOTTOM -> LEFT
      [] edge = LEFT -> TOP

\* the page edge that a printed side faces after a clockwise rotation
RECURSIVE facedEdge(_, _)
facedEdge(rotation, printedSide) ==
    IF rotation = 0 THEN printedSide
    ELSE quarterTurn(facedEdge(rotation - 90, printedSide))

\* the page-relative flag of an edge
pageFlag(item, edge) ==
    CASE edge = TOP -> item.cropOnTop
      [] edge = BOTTOM -> item.cropOnBottom
      [] edge = LEFT -> item.cropOnLeft
      [] edge = RIGHT -> item.cropOnRight

\* left and right exchanged
exchanged(s) ==
    CASE s = LEFT -> RIGHT
      [] s = RIGHT -> LEFT
      [] OTHER -> s

C14_Mapping ==
    pc = "crop-asked" =>
        LET item == items[1]
            printedSide == IF item.rightSide THEN exchanged(askedSide) ELSE askedSide
        IN cropmark = pageFlag(item, facedEdge(item.rotation, printedSide))

\* an item with one flag set has it returned for one side and no other
C14_Bijection ==
    pc \in { "crop-item", "crop-asked" } =>
        LET item == items[1]
            flags == { e \in Sides : pageFlag(item, e) }
        IN Cardinality({ s \in Sides : translateCropmarkEnable(item, s) })
               = Cardinality(flags)

C14_Translate ==
    /\ [](C14_Mapping /\ C14_Bijection)
    /\ [][pc' = "crop-asked" => items' = items]_vars

C14_Witness ==
    /\ pc = "crop-asked"
    /\ items[1].rotation = 270 /\ items[1].rightSide
    /\ items[1].cropOnTop /\ ~items[1].cropOnBottom
    /\ ~items[1].cropOnLeft /\ ~items[1].cropOnRight
    /\ askedSide = LEFT /\ cropmark

-----------------------------------------------------------------------------
(* C15 (PageSpec): a PageLayout is interleaved only if interleaving was    *)
(* requested and enabled, the tab width is at most half the divider width  *)
(* and the interleaved calculation gives strictly more items than the      *)
(* non-interleaved one of the same orientation; otherwise its rows,        *)
(* columns, extra, number and margins are those of the non-interleaved     *)
(* calculation.                                                            *)

laidOut == pc \in { "page-layout", "paginated", "page-error" }

\* the two candidates of getPageLayout, interleaving requested or not
candidate(isHorizontal, requested) ==
    IF isHorizontal
    THEN horizontalLayout(options, -1, requested)
    ELSE verticalLayout(options, -1, requested)

sameCalculation(a, b) ==
    /\ a.rows = b.rows
    /\ a.columns = b.columns
    /\ a.extra = b.extra
    /\ a.number = b.number
    /\ a.marginWidth = b.marginWidth
    /\ a.marginHeight = b.marginHeight
    /\ a.horizontalMargin = b.horizontalMargin
    /\ a.verticalMargin = b.verticalMargin

C15_InterleavedOnlyIfMore ==
    laidOut =>
        \A isHorizontal \in BOOLEAN : \A requested \in BOOLEAN :
            LET final == candidate(isHorizontal, requested)
                base == candidate(isHorizontal, FALSE)
            IN IF final.isInterleaved
               THEN /\ requested
                    /\ options.optimize_interleave
                    /\ 2 * options.labelWidth <= options.dividerWidth
                    /\ final.number > base.number
               ELSE /\ sameCalculation(final, base)
                    /\ ~base.isInterleaved

\* the layout in use is one of them
C15_LayoutIsCandidate ==
    laidOut =>
        \E requested \in BOOLEAN :
            layout = candidate(layout.layoutIsHorizontal, requested)

C15_Interleaved == C15_InterleavedOnlyIfMore /\ C15_LayoutIsCandidate

\* an interleaved layout, and one where interleaving was possible but gave
\* no more items
C15_Witness ==
    /\ laidOut
    /\ layout.isInterleaved
    /\ layout.number > candidate(layout.layoutIsHorizontal, FALSE).number

C15_WitnessTie ==
    /\ laidOut
    /\ ~layout.isInterleaved
    /\ layout.tryInterleave
    /\ calculate(cls, layout, TRUE).number = layout.number

-----------------------------------------------------------------------------
(* C16 (PageSpec): on an interleaved page of non-wrapper dividers, in each *)
(* list handed to interleaveList the second item of every nested pair is   *)
(* rotated 180 degrees relative to the first, has the first's tab side     *)
(* (it is flipped front to back exactly when the tab sides differed), the  *)
(* pair extends over item1.height + item2.height - tabHeight along the tab *)
(* axis, consecutive pairs start that far apart, and a single item left    *)
(* after the pairs is placed after them and keeps its full height.         *)

interleavedPage == pc = "paginated" /\ layout.isInterleaved

\* the lists handed to interleaveList: the swipes of the field, then the
\* extras when the tabs are vertical; each with its direction
swipeLists ==
    LET upDown == doUpDownOf(cls, layout)
        count == IF upDown THEN layout.columns ELSE layout.rows
        fieldsize == layout.rows * layout.columns
        field == { [ list |-> swipeOf(layout, Len(items), k, upDown), isUpDown |-> upDown ] :
                   k \in 0..(count - 1) }
        extras == IF Len(items) > fieldsize /\ ~cls.tabIsHorizontal
                  THEN { [ list |-> consecutive(fieldsize + 1, layout.number),
                           isUpDown |-> layout.layoutIsHorizontal ] }
                  ELSE { }
    IN field \cup extras

\* the pairs of a list (positions j, j + 1 with j odd)
pairStarts(l) == { j \in 1..(Len(l.list) - 1) : j % 2 = 1 }

nests(item1, item2) == ~item1.isTabCentred /\ ~item2.isTabCentred

\* item2 sits on the tab of item1: same place across the tab axis, and the
\* two boxes together span h1 + h2 - tabHeight along it
pairExtent(item1, item2) ==
    IF item1.rotation = 0
    THEN /\ item2.x = item1.x
         /\ (item2.y + boxHeight(item2)) - item1.y
                = item1.height + item2.height - cls.tabHeight
    ELSE /\ item1.rotation = 90
         /\ item2.y = item1.y
         /\ (item2.x + boxWidth(item2)) - item1.x
                = item1.height + item2.height - cls.tabHeight

C16_Rotation ==
    interleavedPage =>
        \A l \in swipeLists : \A j \in pairStarts(l) :
            nests(thePage[l.list[j]], thePage[l.list[j + 1]]) =>
                thePage[l.list[j + 1]].rotation
                    = (thePage[l.list[j]].rotation + 180) % 360

C16_TabSide ==
    interleavedPage =>
        \A l \in swipeLists : \A j \in pairStarts(l) :
            LET item1 == thePage[l.list[j]]
                item2 == thePage[l.list[j + 1]]
                before1 == items[l.list[j]]
                before2 == items[l.list[j + 1]]
                flipped == before1.rightSide # before2.rightSide
            IN nests(item1, item2) =>
                /\ item1.rightSide = before1.rightSide
                /\ item2.rightSide = item1.rightSide
                /\ item2.textTypeFront
                      = IF flipped THEN before2.textTypeBack ELSE before2.textTypeFront
                /\ item2.textTypeBack
                      = IF flipped THEN before2.textTypeFront ELSE before2.textTypeBack

C16_Extent ==
    interleavedPage =>
        \A l \in swipeLists : \A j \in pairStarts(l) :
            nests(thePage[l.list[j]], thePage[l.list[j + 1]]) =>
                pairExtent(thePage[l.list[j]], thePage[l.list[j + 1]])

\* where the item at an odd position j of a list starts along the list
startAlong(l, j) == IF l.isUpDown THEN thePage[l.list[j]].y ELSE thePage[l.list[j]].x

C16_Pitch ==
    interleavedPage =>
        \A l \in swipeLists : \A j \in 1..Len(l.list) :
            (j % 2 = 1 /\ \A i \in 1..Len(l.list) : ~thePage[l.list[i]].isTabCentred) =>
                startAlong(l, j)
                    = ((j - 1) \div 2)
                        * ((2 * options.dividerHeightReserved) - cls.tabHeight)

\* the single item left over is not turned round: it has the rotation
\* setItem gave it and nothing is nested into its height
C16_Single ==
    interleavedPage =>
        \A l \in swipeLists :
            Len(l.list) % 2 = 1 =>
                LET i == l.list[Len(l.list)]
                IN /\ thePage[i].rotation = setItem(cls, layout, items[i], i - 1, pageOffset).rotation
                   /\ thePage[i].height = options.dividerHeightReserved
                   /\ thePage[i].rightSide = items[i].rightSide

C16_InterleavedPairs ==
    C16_Rotation /\ C16_TabSide /\ C16_Extent /\ C16_Pitch /\ C16_Single

\* a list of three: a nested pair whose tab sides differed, then a single
C16_Witness ==
    /\ interleavedPage
    /\ \E l \in swipeLists :
         /\ Len(l.list) = 3
         /\ nests(thePage[l.list[1]], thePage[l.list[2]])
         /\ items[l.list[1]].rightSide # items[l.list[2]].rightSide
         /\ thePage[l.list[2]].rotation = 180
         /\ startAlong(l, 3) = (2 * options.dividerHeightReserved) - cls.tabHeight

-----------------------------------------------------------------------------
(* C17 (RenderSpec): in the greedy mode (wrappers or interleaving) every   *)
(* divider of every page is drawn with the same horizontal and the same    *)
(* vertical margin, the minimum of the layout margins over all the pages.  *)

greedyMode == options.wrapper \/ options.optimize_interleave

rendering == pc \in { "done", "front", "back-footer", "back", "rendered" }

C17_UniformMargins ==
    (rendering /\ greedyMode /\ drawn # << >>) =>
        /\ drawn[1].horizontalMargin = hMargin
        /\ drawn[1].verticalMargin = vMargin

\* the margins kept for the run are the minimum over the pages' layouts
C17_MinimumKept ==
    (rendering /\ greedyMode /\ pages # << >>) =>
        /\ \A p \in 1..Len(pages) : hMargin <= pages[p].hMargin /\ vMargin <= pages[p].vMargin
        /\ \E p \in 1..Len(pages) : hMargin = pages[p].hMargin
        /\ \E p \in 1..Len(pages) : vMargin = pages[p].vMargin

-----------------------------------------------------------------------------
(* C18 (RenderSpec): every saveState of drawDivider, drawOutline, drawTab, *)
(* drawText and drawSetNames is matched by one restoreState: between the   *)
(* renderings of items and pages as many states have been restored as      *)
(* saved.                                                                  *)

C18_SaveRestoreMatched ==
    rendering => canvas.saves = canvas.restores

-----------------------------------------------------------------------------
(* C19 (ScenarioSpec): with a usable area of 500 x 700, dividers of        *)
(* 100 x 150, tab 40 x 20, no extras and no interleaving, the layout has   *)
(* columns = 5, rows = 4, number = 20; the item at index 7 is at x = 200   *)
(* with all four crop flags false; the item at index 0 is at x = 0,        *)
(* y = 450 with cropOnTop and cropOnLeft true.  As stated, index 7 is at   *)
(* y = 150; the code puts it in the second row from the top, at y = 300.   *)

scenarioGrid ==
    /\ layout.columns = 5
    /\ layout.rows = 4
    /\ layout.number = 20

\* the item at index 7, apart from its y
scenarioIndex7 ==
    Len(thePage) > 7 =>
        /\ thePage[8].x = 200
        /\ ~thePage[8].cropOnTop /\ ~thePage[8].cropOnBottom
        /\ ~thePage[8].cropOnLeft /\ ~thePage[8].cropOnRight

scenarioIndex0 ==
    Len(thePage) > 0 =>
        /\ thePage[1].x = 0
        /\ thePage[1].y = 450
        /\ thePage[1].cropOnTop /\ thePage[1].cropOnLeft

\* as stated: y = 150 for index 7
C19_ScenarioAsStated ==
    pc = "paginated" =>
        /\ scenarioGrid /\ scenarioIndex7 /\ scenarioIndex0
        /\ (Len(thePage) > 7 => thePage[8].y = 150)

\* amended: y = 300 for index 7
C19_Scenario ==
    pc = "paginated" =>
        /\ scenarioGrid /\ scenarioIndex7 /\ scenarioIndex0
        /\ (Len(thePage) > 7 => thePage[8].y = 300)

C19_Witness ==
    /\ pc = "paginated"
    /\ options.paperwidth = 500 /\ options.paperheight = 700
    /\ Len(thePage) = 20
    /\ thePage[8].x = 200 /\ thePage[8].y = 300
    /\ thePage[1].y = 450 /\ thePage[1].cropOnTop

-----------------------------------------------------------------------------
(* C20 (PageSpec): paginate called a second time with the same layout, the *)
(* same items and the same page number leaves every item with the x, y,    *)
(* rotation and rightSide it had after the first call, on interleaved      *)
(* layouts as on the others.                                               *)

paginatedAgain == pc = "paginated-again"

samePlace(a, b) ==
    /\ a.x = b.x
    /\ a.y = b.y
    /\ a.rotation = b.rotation
    /\ a.rightSide = b.rightSide

C20_PaginateTwice ==
    paginatedAgain =>
        /\ Len(pages[2].page) = Len(pages[1].page)
        /\ \A k \in 1..Len(pages[1].page) :
              samePlace(pages[2].page[k], pages[1].page[k])

\* an interleaved page on which the first call has turned round and flipped
\* an item
C20_Witness ==
    /\ paginatedAgain
    /\ layout.isInterleaved
    /\ \E k \in 1..Len(pages[2].page) :
         /\ pages[2].page[k].rotation = 180
         /\ pages[2].page[k].rightSide # items[k].rightSide

-----------------------------------------------------------------------------
(* C21 (ItemSpec): rotate(delta) sets rotation to (rotation + delta) mod   *)
(* 360, so four rotate(90) restore the rotation and after any sequence of  *)
(* setItem, interleave and rotate by multiples of 90 the rotation is one   *)
(* of 0, 90, 180, 270; flipFront2Back twice restores rightSide and the two *)
(* text types, and once changes nothing but these three fields.            *)

fourQuarterTurns(item) == rotate(rotate(rotate(rotate(item, 90), 90), 90), 90)

C21_RotationInRange ==
    itemMade => \A k \in 1..2 : items[k].rotation \in Rotations

C21_FourTurns ==
    itemMade => \A k \in 1..2 : fourQuarterTurns(items[k]) = items[k]

C21_FlipTwice ==
    itemMade => \A k \in 1..2 : flipFront2Back(flipFront2Back(items[k])) = items[k]

\* a step of rotate changes the rotation of one item, and nothing else of it
C21_RotateStep ==
    pc' = "item-rotated" =>
        \E k \in 1..2 :
            items' = [ items EXCEPT
                         ![k] = [ items[k] EXCEPT
                                    !.rotation = (items[k].rotation + rotateDelta') % 360 ] ]

\* a step of flipFront2Back changes three fields of one item
C21_FlipStep ==
    pc' = "item-flipped" =>
        \E k \in 1..2 :
            items' = [ items EXCEPT
                         ![k] = [ items[k] EXCEPT
                                    !.rightSide = ~items[k].rightSide,
                                    !.textTypeFront = items[k].textTypeBack,
                                    !.textTypeBack = items[k].textTypeFront ] ]

C21_RotateAndFlip ==
    /\ [](C21_RotationInRange /\ C21_FourTurns /\ C21_FlipTwice)
    /\ [][C21_RotateStep /\ C21_FlipStep]_vars

\* a quarter turn back from 0 after an interleave that has turned item 2
C21_Witness ==
    /\ pc = "item-rotated"
    /\ rotateDelta = -90
    /\ items[1].rotation = 270
    /\ items[2].rotation = 180
    /\ items[2].textTypeFront = "rules"

-----------------------------------------------------------------------------
(* C22 (PlotSpec): after any sequence of move and cropmark the pen is at   *)
(* the start point plus the sum of the deltas of the move calls; move      *)
(* advances the pen by its delta whatever the pen type, drawing a line     *)
(* from the old to the new point for LINE only and a dot at the new point  *)
(* for DOT only; cropmark leaves the pen where it was and draws, when      *)
(* enabled, one segment of the crop-mark length that starts one crop-mark  *)
(* spacing away in the given direction, and nothing when disabled.         *)

plotterMade == pc = "plotter-made"

C22_PenAtSum ==
    plotterMade =>
        /\ plotter.plotter.x = plotter.start[1] + plotter.moved[1]
        /\ plotter.plotter.y = plotter.start[2] + plotter.moved[2]

\* the unit vector of a direction
towards(direction) ==
    CASE direction = TOP -> <<0, 1>>
      [] direction = BOTTOM -> <<0, -1>>
      [] direction = RIGHT -> <<1, 0>>
      [] direction = LEFT -> <<-1, 0>>

\* the crop mark of a pen at x, y
markFrom(p, direction) ==
    << p.x + (towards(direction)[1] * p.CropMarkSpacing),
       p.y + (towards(direction)[2] * p.CropMarkSpacing),
       p.x + (towards(direction)[1] * (p.CropMarkSpacing + p.CropMarkLength)),
       p.y + (towards(direction)[2] * (p.CropMarkSpacing + p.CropMarkLength)) >>

C22_MoveStep ==
    (plotterMade /\ plotter'.called.op = "move" /\ plotter'.calls # plotter.calls) =>
        LET p == plotter.plotter
            q == plotter'.plotter
            c == plotter'.called
        IN /\ q.x = p.x + c.delta_x
           /\ q.y = p.y + c.delta_y
           /\ q.lines = IF c.pen = LINE
                        THEN Append(p.lines, <<p.x, p.y, q.x, q.y>>)
                        ELSE p.lines
           /\ Len(q.dots) = Len(p.dots) + (IF c.pen = DOT THEN 1 ELSE 0)
           /\ c.pen = DOT => /\ q.dots[Len(q.dots)][1] = q.x
                             /\ q.dots[Len(q.dots)][2] = q.y
                             /\ SubSeq(q.dots, 1, Len(p.dots)) = p.dots
           /\ c.pen # DOT => q.dots = p.dots

C22_CropmarkStep ==
    (plotterMade /\ plotter'.called.op = "cropmark" /\ plotter'.calls # plotter.calls) =>
        LET p == plotter.plotter
            q == plotter'.plotter
            c == plotter'.called
        IN /\ q.x = p.x
           /\ q.y = p.y
           /\ q.dots = p.dots
           /\ q.lines = IF c.enabled
                        THEN Append(p.lines, markFrom(p, c.direction))
                        ELSE p.lines

C22_Pen ==
    /\ []C22_PenAtSum
    /\ [][C22_MoveStep /\ C22_CropmarkStep]_vars

\* a line, then a crop mark to the left of its end
C22_Witness ==
    /\ plotterMade
    /\ plotter.start = <<1, 4>>
    /\ plotter.called = [ op |-> "cropmark", enabled |-> TRUE, direction |-> LEFT ]
    /\ plotter.plotter.lines = << <<1, 4, -1, 7>>, <<-2, 7, -4, 7>> >>
    /\ plotter.plotter.x = -1 /\ plotter.plotter.y = 7

-----------------------------------------------------------------------------
(* C23 (PageSpec): in an interleaved layout the number of items along the  *)
(* nesting axis is 2*doubles + singles, with doubles = usableLength div    *)
(* (2*itemLength - tabHeight) and singles = (usableLength - doubles *      *)
(* (2*itemLength - tabHeight)) div itemLength, usableLength the usable     *)
(* page length along the nesting axis and itemLength the pitch setItem     *)
(* uses on that axis (width along x, height along y); the number along the *)
(* other axis is the usable length div the pitch on that axis.  For        *)
(* bottom-to-top and for left-to-right nesting.                            *)

nestedCount(usable, itemLength) ==
    LET double == (2 * itemLength) - cls.tabHeight
        doubles == usable \div double
        singles == (usable - (doubles * double)) \div itemLength
    IN (2 * doubles) + singles

usableWidthOf == usableLength(cls.pageWidth, cls.minMarginH)

usableHeightOf == usableLength(cls.pageHeight, cls.minMarginV)

C23_BottomToTop ==
    (laidOut /\ layout.isInterleaved /\ doUpDownOf(cls, layout)) =>
        /\ layout.rows = nestedCount(usableHeightOf, layout.height)
        /\ layout.columns = usableWidthOf \div layout.width

C23_LeftToRight ==
    (laidOut /\ layout.isInterleaved /\ ~doUpDownOf(cls, layout)) =>
        /\ layout.columns = nestedCount(usableWidthOf, layout.width)
        /\ layout.rows = usableHeightOf \div layout.height

C23_NestedCount == C23_BottomToTop /\ C23_LeftToRight

-----------------------------------------------------------------------------
(* C24 (PageSpec): the nesting axis used by calculate, paginate and        *)
(* interleaveList is the page axis along which the placed items' tabs      *)
(* protrude, which is the axis along which interleave moves the second     *)
(* item of a pair: the vertical axis when the field rotation is 0 or 180,  *)
(* the horizontal axis when it is 90 or 270, whatever layoutIsHorizontal,  *)
(* tabIsHorizontal and isWrapper are.                                      *)

tabsAlongY(rotation) == rotation \in { 0, 180 }

C24_CalculateAxis ==
    (laidOut /\ layout.isInterleaved) =>
        (doUpDownOf(cls, layout) <=> tabsAlongY(layout.rotation))

C24_ListAxis ==
    interleavedPage =>
        \A l \in swipeLists : \A j \in pairStarts(l) :
            nests(thePage[l.list[j]], thePage[l.list[j + 1]]) =>
                /\ l.isUpDown <=> tabsAlongY(thePage[l.list[j]].rotation)
                /\ l.isUpDown <=> thePage[l.list[j + 1]].x = thePage[l.list[j]].x

C24_NestingAxis == C24_CalculateAxis /\ C24_ListAxis

-----------------------------------------------------------------------------
(* C25 (Spec): in the greedy driver each page starts with min(base         *)
(* capacity, remaining items) items; the next pending item is admitted to  *)
(* the page exactly when the layout recomputed with the tallest height     *)
(* seen so far, the candidate included, has a capacity of at least the     *)
(* batch size + 1, and otherwise the page is closed; after every admission *)
(* the batch size is the number of the layout handed to paginate, so a     *)
(* batch never exceeds its layout's number, and every page except the last *)
(* holds at least the base capacity.                                       *)

loading == pc = "greedy" /\ items # << >>

trying == pc = "tryMore"

\* the layout for the batch and the candidate together, from their heights
recomputed ==
    LET together == Append(itemsPage, items[1])
        centred == \E k \in 1..Len(together) : together[k].isTabCentred
    IN getPageLayout(options, maxHeightOf(together),
                     options.optimize_interleave /\ ~centred)

admitted ==
    /\ pc' = "tryMore"
    /\ itemsPage' = Append(itemsPage, items[1])
    /\ items' = Tail(items)
    /\ pages' = pages

closed ==
    /\ pc' \in { "greedy", "error" }
    /\ Len(pages') = Len(pages) + 1
    /\ itemsPage' = itemsPage
    /\ items' = items

C25_PageStart ==
    loading =>
        /\ Len(itemsPage') = Min(layout.number, Len(items))
        /\ itemsPage' \o items' = items

C25_AdmitOrClose ==
    (trying /\ items # << >>) =>
        IF recomputed.number >= Len(itemsPage) + 1 THEN admitted ELSE closed

C25_CloseAtEnd == (trying /\ items = << >>) => closed

C25_AfterAdmission ==
    (trying /\ admitted) => Len(itemsPage') = thisLayout'.number

C25_BatchWithinNumber == trying => Len(itemsPage) <= thisLayout.number

C25_FullPages ==
    (started /\ greedyMode) =>
        \A k \in 1..(Len(pages) - 1) : Len(pages[k].page) >= layout.number

C25_Greedy ==
    /\ [](C25_BatchWithinNumber /\ C25_FullPages)
    /\ [][C25_PageStart /\ C25_AdmitOrClose /\ C25_CloseAtEnd /\ C25_AfterAdmission]_vars

\* a page closed with one item more than the base capacity, and a second
\* page begun
C25_Witness ==
    /\ trying
    /\ Len(pages) = 1
    /\ layout.number >= 2
    /\ Len(pages[1].page) = layout.number + 1
    /\ Len(itemsPage) >= 1

-----------------------------------------------------------------------------
(* C26 (Spec): every PageLayout handed to paginate has number = rows *     *)
(* columns + extra, the layouts whose number and extra the greedy driver   *)
(* rewrites after a successful look-ahead included.                        *)

\* paginate is called in this step
paginating == Len(pages') = Len(pages) + 1

\* the layout it is called on
handed == IF pc = "tryMore" THEN thisLayout ELSE layout

numberIsCapacity(l) == l.number = (l.rows * l.columns) + l.extra

C26_BaseLayout == started => numberIsCapacity(layout)

C26_HandedStep == paginating => numberIsCapacity(handed)

C26_NumberIsCapacity == []C26_BaseLayout /\ [][C26_HandedStep]_vars

-----------------------------------------------------------------------------
(* C27 (FrameSpec): for each rotation 0, 90, 180, 270 the rectangle of the *)
(* page into which translate puts the item on the back face is the mirror  *)
(* image, about the vertical centre line of the page width passed in, of   *)
(* the rectangle into which it puts the item on the front face (the item's *)
(* rotation is clockwise, the angle handed to the canvas counter-          *)
(* clockwise); translate does not change the item's x, y or rotation.      *)

\* the rectangle of the page covered by [0, width] x [0, height] of a canvas
\* moved to (c.x, c.y) and turned counter-clockwise by c.rotation
pageBox(c, width, height) ==
    LET angle == c.rotation % 360
    IN IF angle = 0
       THEN [ left |-> c.x, right |-> c.x + width, bottom |-> c.y, top |-> c.y + height ]
       ELSE IF angle = 90
       THEN [ left |-> c.x - height, right |-> c.x, bottom |-> c.y, top |-> c.y + width ]
       ELSE IF angle = 180
       THEN [ left |-> c.x - width, right |-> c.x, bottom |-> c.y - height, top |-> c.y ]
       ELSE [ left |-> c.x, right |-> c.x + height, bottom |-> c.y - width, top |-> c.y ]

mirrorBox(b, page_width) ==
    [ left |-> page_width - b.right, right |-> page_width - b.left,
      bottom |-> b.bottom, top |-> b.top ]

frontBox(item, page_width) ==
    pageBox(translate(item, page_width, FALSE), item.width, item.height)

framed == pc = "frame-set" /\ frame.set

C27_BackIsMirror ==
    (framed /\ frame.backside) =>
        pageBox(frame.canvas, items[1].width, items[1].height)
            = mirrorBox(frontBox(items[1], frame.page_width), frame.page_width)

\* on the front the item is put where pagination placed it
C27_FrontInPlace ==
    (framed /\ ~frame.backside) =>
        pageBox(frame.canvas, items[1].width, items[1].height)
            = [ left |-> items[1].x, right |-> items[1].x + boxWidth(items[1]),
                bottom |-> items[1].y, top |-> items[1].y + boxHeight(items[1]) ]

C27_ItemKept ==
    (pc \in { "frame-item", "frame-set" } /\ frame' # frame) =>
        /\ items'[1].x = items[1].x
        /\ items'[1].y = items[1].y
        /\ items'[1].rotation = items[1].rotation

C27_Translate ==
    /\ [](C27_BackIsMirror /\ C27_FrontInPlace)
    /\ [][C27_ItemKept]_vars

\* the back of an item 4 wide and 6 high, turned by 270, at (5, 3) on a page
\* 20 wide: it covers [9, 15] x [3, 7]
C27_Witness ==
    /\ framed
    /\ frame.backside
    /\ frame.page_width = 20
    /\ items[1].rotation = 270 /\ items[1].width = 4 /\ items[1].height = 6
    /\ items[1].x = 5 /\ items[1].y = 3
    /\ pageBox(frame.canvas, 4, 6) = [ left |-> 9, right |-> 15, bottom |-> 3, top |-> 7 ]

-----------------------------------------------------------------------------
(* C28 (PageSpec): after paginate on a layout computed by calculate, with  *)
(* or without extras and interleaving, the box of every placed item (width *)
(* x height for rotation 0 or 180, height x width for 90 or 270), moved by *)
(* the layout's marginWidth and marginHeight, lies inside the usable area  *)
(* [0, usableWidth] x [0, usableHeight]; marginWidth and marginHeight are  *)
(* never negative.                                                         *)

insideUsable(item) ==
    /\ 0 <= layout.marginWidth + item.x
    /\ layout.marginWidth + item.x + boxWidth(item) <= usableWidthOf
    /\ 0 <= layout.marginHeight + item.y
    /\ layout.marginHeight + item.y + boxHeight(item) <= usableHeightOf

C28_MarginsNotNegative ==
    laidOut => (layout.marginWidth >= 0 /\ layout.marginHeight >= 0)

C28_ItemsInside ==
    batchPlaced => \A i \in 1..Len(thePage) : insideUsable(thePage[i])

\* the same for the pages without interleaving and without extras only
C28_PlainItemsInside ==
    (batchPlaced /\ ~layout.isInterleaved /\ layout.extra = 0) =>
        \A i \in 1..Len(thePage) : insideUsable(thePage[i])

C28_InsideUsableArea == C28_MarginsNotNegative /\ C28_ItemsInside

-----------------------------------------------------------------------------
(* C29 (PageSpec): after paginate no two items of a page have boxes with   *)
(* overlapping interiors, except the two members of one interleaved pair,  *)
(* which overlap by exactly the tab height along the nesting axis; no item *)
(* of the extra region overlaps an item of the grid, with or without       *)
(* interleaving.                                                           *)

boxOf(item) ==
    [ left |-> item.x, right |-> item.x + boxWidth(item),
      bottom |-> item.y, top |-> item.y + boxHeight(item) ]

overlapX(a, b) == Min(a.right, b.right) - Max(a.left, b.left)

overlapY(a, b) == Min(a.top, b.top) - Max(a.bottom, b.bottom)

overlapping(a, b) == overlapX(a, b) > 0 /\ overlapY(a, b) > 0

\* i and j are the two members of a nested pair of a list
pairOf(i, j) ==
    \E l \in swipeLists : \E k \in pairStarts(l) :
        /\ { i, j } = { l.list[k], l.list[k + 1] }
        /\ nests(thePage[l.list[k]], thePage[l.list[k + 1]])

\* the two boxes share a strip as deep as the tab along the axis of the tab,
\* and the whole side across it
tabOverlap(item1, item2) ==
    IF tabsAlongY(item1.rotation)
    THEN /\ overlapY(boxOf(item1), boxOf(item2)) = cls.tabHeight
         /\ overlapX(boxOf(item1), boxOf(item2)) = boxWidth(item1)
    ELSE /\ overlapX(boxOf(item1), boxOf(item2)) = cls.tabHeight
         /\ overlapY(boxOf(item1), boxOf(item2)) = boxHeight(item1)

C29_PlainDisjoint ==
    (batchPlaced /\ ~layout.isInterleaved) =>
        \A i \in 1..Len(thePage) : \A j \in 1..Len(thePage) :
            i < j => ~overlapping(boxOf(thePage[i]), boxOf(thePage[j]))

C29_InterleavedDisjoint ==
    interleavedPage =>
        \A i \in 1..Len(thePage) : \A j \in 1..Len(thePage) :
            i < j =>
                IF pairOf(i, j)
                THEN tabOverlap(thePage[i], thePage[j])
                ELSE ~overlapping(boxOf(thePage[i]), boxOf(thePage[j]))

C29_ExtrasOffGrid ==
    batchPlaced =>
        \A i \in 1..Len(thePage) : \A j \in 1..Len(thePage) :
            (i <= layout.rows * layout.columns /\ j > layout.rows * layout.columns) =>
                ~overlapping(boxOf(thePage[i]), boxOf(thePage[j]))

C29_NoOverlap == C29_PlainDisjoint /\ C29_InterleavedDisjoint /\ C29_ExtrasOffGrid

-----------------------------------------------------------------------------
(* C30 (PageSpec): interleaveList returns the whole extent along the       *)
(* nesting axis that the list it is given takes up: the sum of what        *)
(* interleave returns for each pair and of the height of each single item  *)
(* left over, 0 for an empty list; and it consumes every item of the list. *)

\* the items of the batch as setItem leaves them, before the lists are made
itemsSet ==
    [ i \in 1..Len(items) |->
        IF i <= layout.number
        THEN setItem(cls, layout, items[i], i - 1, pageOffset)
        ELSE items[i] ]

\* what interleave returns for each pair, in turn, and the heights of the
\* singles, added up
RECURSIVE extentOf(_, _)
extentOf(all, idxs) ==
    IF Len(idxs) > 1
    THEN interleave(cls, all[idxs[1]], all[idxs[2]], 0, 0).height
            + extentOf(all, Tail(Tail(idxs)))
    ELSE IF Len(idxs) = 1
    THEN all[idxs[1]].height
    ELSE 0

returned(l) == interleaveList(cls, itemsSet, l.list, l.isUpDown).height

C30_ShortLists ==
    interleavedPage =>
        \A l \in swipeLists : Len(l.list) <= 2 => returned(l) = extentOf(itemsSet, l.list)

C30_ReturnsExtent ==
    interleavedPage =>
        \A l \in swipeLists : returned(l) = extentOf(itemsSet, l.list)

=============================================================================
